---- MODULE Spec2Model ----
(***************************************************************************)
(* Model of the Miphira Object Storage Go client (package sdk, client.go): *)
(* the presigned-URL signer, the wall clock it reads, and a server that    *)
(* verifies the URLs it produces.                                          *)
(*                                                                         *)
(* A Go string is a sequence of one-character strings, so that formatting, *)
(* escaping and parsing are computed character by character.               *)
(***************************************************************************)
EXTENDS Integers, Sequences, FiniteSets, TLC

(***************************************************************************)
(* Characters and bytes                                                    *)
(***************************************************************************)
NL == "\n"

Upper == <<"A","B","C","D","E","F","G","H","I","J","K","L","M",
           "N","O","P","Q","R","S","T","U","V","W","X","Y","Z">>

Lower == <<"a","b","c","d","e","f","g","h","i","j","k","l","m",
           "n","o","p","q","r","s","t","u","v","w","x","y","z">>

Digits == <<"0","1","2","3","4","5","6","7","8","9">>

\* The printable ASCII characters, bytes 32..126 in order (byte 96, the grave
\* accent, is written "grave").
Printable ==
    <<" ","!","\"","#","$","%","&","'","(",")","*","+",",","-",".","/">>
    \o Digits \o <<":",";","<","=",">","?","@">>
    \o Upper \o <<"[","\\","]","^","_","grave">>
    \o Lower \o <<"{","|","}","~">>

Range(s) == {s[i] : i \in 1..Len(s)}

IndexOf(c, s) == CHOOSE i \in 1..Len(s) : s[i] = c

OrdTable ==
    [c \in Range(Printable) \cup {NL} |->
        IF c = NL THEN 10 ELSE 31 + IndexOf(c, Printable)]

\* []byte(string): the byte value of a character.
Ord(c) == OrdTable[c]

\* string([]byte): the character of a byte value (printable or newline).
Chr(b) == IF b = 10 THEN NL ELSE Printable[b - 31]

Bytes(s) == [i \in 1..Len(s) |-> Ord(s[i])]

(***************************************************************************)
(* fmt.Sprintf verbs                                                       *)
(***************************************************************************)
RECURSIVE FormatUint(_)
FormatUint(n) ==
    IF n < 10 THEN <<Digits[n + 1]>>
    ELSE FormatUint(n \div 10) \o <<Digits[(n % 10) + 1]>>

\* %d of an int64: a minus sign for negatives, then the magnitude.
FormatInt(n) == IF n < 0 THEN <<"-">> \o FormatUint(0 - n) ELSE FormatUint(n)

(***************************************************************************)
(* crypto/hmac with sha256.New, as an ideal keyed hash: a 32-byte digest   *)
(* that differs whenever the key or the message differs.  The digest holds *)
(* the key length, the key bytes and the message bytes, each byte passed   *)
(* through a position-dependent permutation of 0..255.  Input beyond 32    *)
(* bytes is folded back onto the digest with odd weights, so that the long *)
(* object paths still reach every signature.                               *)
(***************************************************************************)
Sha256Size == 32

Mix(b, i) == (b * 7 + 31 * i) % 256

RECURSIVE Fold(_, _, _)
Fold(body, j, w) ==
    IF j > Len(body) THEN 0
    ELSE body[j] * w + Fold(body, j + Sha256Size, w + 2)

HmacSha256(key, msg) ==
    LET body == <<Len(key)>> \o Bytes(key) \o Bytes(msg)
    IN  [i \in 1..Sha256Size |-> Mix(Fold(body, i, 1) % 256, i)]

(***************************************************************************)
(* encoding/base64: URLEncoding (URL-safe alphabet, '=' padding)           *)
(***************************************************************************)
encodeURL == Upper \o Lower \o Digits \o <<"-","_">>

StdPadding == "="

RECURSIVE EncodeToString(_)
EncodeToString(src) ==
    IF Len(src) = 0 THEN <<>>
    ELSE IF Len(src) = 1 THEN
        LET val == src[1] * 65536
        IN  <<encodeURL[((val \div 262144) % 64) + 1],
              encodeURL[((val \div 4096) % 64) + 1],
              StdPadding, StdPadding>>
    ELSE IF Len(src) = 2 THEN
        LET val == src[1] * 65536 + src[2] * 256
        IN  <<encodeURL[((val \div 262144) % 64) + 1],
              encodeURL[((val \div 4096) % 64) + 1],
              encodeURL[((val \div 64) % 64) + 1],
              StdPadding>>
    ELSE
        LET val == src[1] * 65536 + src[2] * 256 + src[3]
        IN  <<encodeURL[((val \div 262144) % 64) + 1],
              encodeURL[((val \div 4096) % 64) + 1],
              encodeURL[((val \div 64) % 64) + 1],
              encodeURL[(val % 64) + 1]>>
            \o EncodeToString(SubSeq(src, 4, Len(src)))

\* base64.URLEncoding.DecodeString, for input whose length is a multiple of
\* four and whose characters are in the alphabet or '='.
RECURSIVE DecodeString(_)
DecodeString(s) ==
    IF Len(s) = 0 THEN <<>>
    ELSE LET v(i) == IF s[i] = StdPadding THEN 0 ELSE IndexOf(s[i], encodeURL) - 1
             val  == v(1) * 262144 + v(2) * 4096 + v(3) * 64 + v(4)
             dst  == <<val \div 65536, (val \div 256) % 256, val % 256>>
             n    == IF s[3] = StdPadding THEN 1
                     ELSE IF s[4] = StdPadding THEN 2 ELSE 3
         IN  SubSeq(dst, 1, n) \o DecodeString(SubSeq(s, 5, Len(s)))

(***************************************************************************)
(* net/url: QueryEscape, QueryUnescape, Parse and Values.Get               *)
(***************************************************************************)
upperhex == <<"0","1","2","3","4","5","6","7","8","9","A","B","C","D","E","F">>

\* shouldEscape(c, encodeQueryComponent): only unreserved characters pass.
shouldEscape(c) ==
    ~(c \in Range(Upper) \cup Range(Lower) \cup Range(Digits)
            \cup {"-", "_", ".", "~"})

EscapeChar(c) ==
    IF c = " " THEN <<"+">>
    ELSE IF shouldEscape(c)
         THEN <<"%", upperhex[(Ord(c) \div 16) + 1], upperhex[(Ord(c) % 16) + 1]>>
         ELSE <<c>>

RECURSIVE QueryEscape(_)
QueryEscape(s) ==
    IF Len(s) = 0 THEN <<>>
    ELSE EscapeChar(s[1]) \o QueryEscape(Tail(s))

\* strings.IndexByte: the position of the first c in s, 0 when there is none.
IndexByte(s, c) ==
    IF c \in Range(s)
    THEN CHOOSE i \in 1..Len(s) : s[i] = c /\ \A j \in 1..(i - 1) : s[j] # c
    ELSE 0

\* strings.Cut: the text before and after the first c (all of s when absent).
CutBefore(s, c) == IF IndexByte(s, c) = 0 THEN s ELSE SubSeq(s, 1, IndexByte(s, c) - 1)

CutAfter(s, c) == IF IndexByte(s, c) = 0 THEN <<>> ELSE SubSeq(s, IndexByte(s, c) + 1, Len(s))

ishex(c) == c \in Range(upperhex) \cup {"a", "b", "c", "d", "e", "f"}

unhex(c) ==
    IF c \in Range(Digits) THEN IndexOf(c, Digits) - 1
    ELSE IF c \in Range(upperhex) THEN IndexOf(c, upperhex) - 1
    ELSE IndexOf(c, <<"a", "b", "c", "d", "e", "f">>) + 9

\* unescape(s, encodeQueryComponent) reports an error for a '%' that is not
\* followed by two hex digits.
RECURSIVE UnescapeOk(_)
UnescapeOk(s) ==
    IF Len(s) = 0 THEN TRUE
    ELSE IF s[1] = "%"
         THEN Len(s) >= 3 /\ ishex(s[2]) /\ ishex(s[3])
              /\ UnescapeOk(SubSeq(s, 4, Len(s)))
         ELSE UnescapeOk(Tail(s))

RECURSIVE QueryUnescape(_)
QueryUnescape(s) ==
    IF Len(s) = 0 THEN <<>>
    ELSE IF s[1] = "%"
         THEN <<Chr(unhex(s[2]) * 16 + unhex(s[3]))>>
              \o QueryUnescape(SubSeq(s, 4, Len(s)))
         ELSE IF s[1] = "+"
              THEN <<" ">> \o QueryUnescape(Tail(s))
              ELSE <<s[1]>> \o QueryUnescape(Tail(s))

\* getScheme: the characters before the first ':' when they form a scheme.
getScheme(rawURL) ==
    LET head == CutBefore(rawURL, ":")
    IN  IF IndexByte(rawURL, ":") > 1
           /\ Range(head) \subseteq Range(Upper) \cup Range(Lower)
                                \cup Range(Digits) \cup {"+", "-", "."}
        THEN head ELSE <<>>

\* url.Parse: fragment, then query, then scheme, authority and path.
Parse(rawURL) ==
    LET u      == CutBefore(rawURL, "#")
        scheme == getScheme(u)
        rest0  == IF scheme = <<>> THEN u ELSE SubSeq(u, Len(scheme) + 2, Len(u))
        rest   == CutBefore(rest0, "?")
        slashes == Len(rest) >= 2 /\ rest[1] = "/" /\ rest[2] = "/"
        after  == IF slashes THEN SubSeq(rest, 3, Len(rest)) ELSE rest
        host   == IF slashes THEN CutBefore(after, "/") ELSE <<>>
    IN  [Scheme   |-> scheme,
         Host     |-> host,
         Path     |-> SubSeq(after, Len(host) + 1, Len(after)),
         RawQuery |-> CutAfter(rest0, "?"),
         Fragment |-> CutAfter(rawURL, "#")]

\* url.ParseQuery: the key/value pairs of a query string, in order; a pair
\* with a ';' in it or with a bad escape is dropped.
RECURSIVE ParseQuery(_)
ParseQuery(query) ==
    IF Len(query) = 0 THEN <<>>
    ELSE LET part == CutBefore(query, "&")
             key  == CutBefore(part, "=")
             val  == CutAfter(part, "=")
             keep == /\ Len(part) > 0
                     /\ ~(";" \in Range(part))
                     /\ UnescapeOk(key)
                     /\ UnescapeOk(val)
         IN  (IF keep THEN <<[key |-> QueryUnescape(key), value |-> QueryUnescape(val)]>>
              ELSE <<>>)
             \o ParseQuery(CutAfter(query, "&"))

\* Values.Get: the first value of the key, "" when the key is absent.
Get(values, key) ==
    IF \E i \in 1..Len(values) : values[i].key = key
    THEN values[CHOOSE i \in 1..Len(values) :
                    /\ values[i].key = key
                    /\ \A j \in 1..(i - 1) : values[j].key # key].value
    ELSE <<>>

\* fmt.Sscanf("%d"): the integer a decimal string denotes.
RECURSIVE ParseUint(_)
ParseUint(s) ==
    IF Len(s) = 0 THEN 0
    ELSE ParseUint(SubSeq(s, 1, Len(s) - 1)) * 10 + (IndexOf(s[Len(s)], Digits) - 1)

IsDecimal(s) ==
    /\ Len(s) > 0
    /\ \/ Range(s) \subseteq Range(Digits)
       \/ Len(s) > 1 /\ s[1] = "-" /\ Range(Tail(s)) \subseteq Range(Digits)

ParseInt(s) == IF s[1] = "-" THEN 0 - ParseUint(Tail(s)) ELSE ParseUint(s)

(***************************************************************************)
(* Bounds and input sets                                                   *)
(***************************************************************************)
\* Clock ticks per second: the clock and the durations are finer than the
\* one-second unit of Unix().
TicksPerSec == 2

\* Calls that read the clock start no later than this tick.
MaxCallTime == 1

\* Largest expires value passed to GenerateSignature directly.
MaxExpires == 10

\* time.Duration arguments, in ticks: negative, zero, one second, and a
\* fractional duration above one second.
Durations == {0 - 1, 0, TicksPerSec, TicksPerSec + 1}

MaxDuration == TicksPerSec + 1

\* The clock stops after every URL issued within the bounds has expired.
MaxNow == MaxCallTime + MaxDuration + TicksPerSec

GET == <<"G","E","T">>

POST == <<"P","O","S","T">>

DELETE == <<"D","E","L","E","T","E">>

Methods == {GET, POST, DELETE}

Paths == {<<"/","a">>, <<"/","a","/","b">>}

SigExpires == {0 - 1, MaxExpires}

BaseURLs == {<<"h","t","t","p",":","/","/","h">>}

ProjectIDs == {<<"p","1">>}

BucketNames == {<<"b","1">>}

\* One access key of URL-safe characters and one that holds a '+'.
AccessKeys == {<<"M","O","S","_","1">>, <<"a","+","b">>}

SecretKeys == {<<"k","1">>, <<"k","2">>}

ClientIds == {1, 2}

\* The goroutines: the first one calls alone in the sequential
\* specifications, both call in the concurrent ones.
Procs == {1, 2}

\* Object names: a plain one, one with a character a URL would escape, and
\* one that no URL can hold (a '%' that starts no escape).
Filenames == {<<"f",".","j">>, <<"a"," ","b">>, <<"%","z">>}

\* The local file Upload reads.
FilePaths == {<<"d","/","f",".","j">>}

\* The UploadOptions values callers hold: ExpiresIn unset, a fractional
\* duration above one second, and a negative duration; Metadata nil or a map.
OptionIds == {1, 2, 3}

CallerOptions ==
    [o \in OptionIds |->
        IF o = 1 THEN [ExpiresIn |-> 0, Metadata |-> "nil"]
        ELSE IF o = 2 THEN [ExpiresIn |-> TicksPerSec + 1, Metadata |-> "map"]
        ELSE [ExpiresIn |-> 0 - TicksPerSec, Metadata |-> "nil"]]

(***************************************************************************)
(* State                                                                   *)
(***************************************************************************)
VARIABLES
    clients,    \* the constructed Client values
    now,        \* the wall clock, in ticks
    pc,         \* where each goroutine stands in GeneratePresignedURL
    args,       \* the receiver and arguments of its current or last call
    readAt,     \* the clock value its call read
    expires,    \* local variable expires
    signature,  \* local variable signature
    result,     \* the URL its last call returned ("" before the first)
    sigCall,    \* the last direct call of GenerateSignature and its result
    sigSeen,    \* an earlier direct call of GenerateSignature and its result
    given,      \* the five arguments each client was constructed from
    op,         \* the exported method each goroutine called, with its arguments
    options,    \* the UploadOptions values the callers own
    resp,       \* what http.DefaultClient.Do or http.Get gave the call
    outcome,    \* what the upload, download or delete call returned
    requests,   \* HTTP requests the current or last call has issued
    urls,       \* URLs the current or last call has generated
    files,      \* the local file system: what each local path holds
    guide,      \* a call of uploadWithRetry of the upload guide
    retry,      \* a call of uploadWithRetry of the best practices
    par         \* a call of uploadFilesParallel of the best practices

\* The state of a call of an exported method beyond GeneratePresignedURL.
httpVars == <<op, options, resp, outcome, requests, urls, files>>

\* The state of the library and of its direct callers.
libVars == <<clients, now, pc, args, readAt, expires, signature, result,
             sigCall, sigSeen, given, op, options, resp, outcome, requests, urls,
             files>>

\* The state of the functions of the guides that are built on the library.
docVars == <<guide, retry, par>>

vars == <<clients, now, pc, args, readAt, expires, signature, result,
          sigCall, sigSeen, given, op, options, resp, outcome, requests, urls,
          files, guide, retry, par>>

(***************************************************************************)
(* The client                                                              *)
(***************************************************************************)
\* Faulty variant: the two keys change places.
NewClient_KeysSwapped(baseURL, projectID, bucketName, accessKey, secretKey) ==
    [BaseURL    |-> baseURL,
     ProjectID  |-> projectID,
     BucketName |-> bucketName,
     AccessKey  |-> secretKey,
     SecretKey  |-> accessKey]

NewClient(baseURL, projectID, bucketName, accessKey, secretKey) ==
    [BaseURL    |-> baseURL,
     ProjectID  |-> projectID,
     BucketName |-> bucketName,
     AccessKey  |-> accessKey,
     SecretKey  |-> secretKey]

\* Faulty variants of the payload: a newline after the expiry, and a payload
\* that leaves the method out.
StringToSign_TrailingNewline(method, path, exp) ==
    method \o <<NL>> \o path \o <<NL>> \o FormatInt(exp) \o <<NL>>

StringToSign_NoMethod(method, path, exp) ==
    path \o <<NL>> \o FormatInt(exp)

\* fmt.Sprintf("%s\n%s\n%d", method, path, expires)
StringToSign(method, path, exp) ==
    method \o <<NL>> \o path \o <<NL>> \o FormatInt(exp)

\* Faulty variants of the signer: keyed with the access key, and signing an
\* expiry that is offset by the current clock.
GenerateSignature_AccessKey(c, method, path, exp) ==
    EncodeToString(HmacSha256(c.AccessKey, StringToSign(method, path, exp)))

GenerateSignature_Clock(c, method, path, exp) ==
    EncodeToString(HmacSha256(c.SecretKey, StringToSign(method, path, exp + now)))

GenerateSignature(c, method, path, exp) ==
    EncodeToString(HmacSha256(c.SecretKey, StringToSign(method, path, exp)))

\* time.Time.Unix: whole seconds, rounded down.
Unix(t) == t \div TicksPerSec

\* Faulty variants of the expiry: the duration subtracted, and the clock and
\* the duration floored one by one.
ExpiresAt_Subtract(clock, expiresIn) == Unix(clock - expiresIn)

ExpiresAt_FloorEach(clock, expiresIn) == Unix(clock) + Unix(expiresIn)

\* time.Now().Add(expiresIn).Unix()
ExpiresAt(clock, expiresIn) == Unix(clock + expiresIn)

QAccessKey == <<"?","X","-","M","o","s","-","A","c","c","e","s","s","K","e","y","=">>

QExpires == <<"&","X","-","M","o","s","-","E","x","p","i","r","e","s","=">>

QSignature == <<"&","X","-","M","o","s","-","S","i","g","n","a","t","u","r","e","=">>

\* Faulty variants of the URL: the first two parameters swapped, the signature
\* written unescaped, an expiry other than the signed one, and the secret key
\* in place of the access key.
PresignedURL_Swapped(c, path, exp, sig) ==
    c.BaseURL \o path \o <<"?">> \o Tail(QExpires) \o FormatInt(exp)
        \o <<"&">> \o Tail(QAccessKey) \o c.AccessKey
        \o QSignature \o QueryEscape(sig)

PresignedURL_RawSignature(c, path, exp, sig) ==
    c.BaseURL \o path \o QAccessKey \o c.AccessKey
        \o QExpires \o FormatInt(exp)
        \o QSignature \o sig

PresignedURL_NextExpiry(c, path, exp, sig) ==
    c.BaseURL \o path \o QAccessKey \o c.AccessKey
        \o QExpires \o FormatInt(exp + 1)
        \o QSignature \o QueryEscape(sig)

PresignedURL_SecretKey(c, path, exp, sig) ==
    c.BaseURL \o path \o QAccessKey \o c.SecretKey
        \o QExpires \o FormatInt(exp)
        \o QSignature \o QueryEscape(sig)

\* Faulty variant: the secret key follows the access key.
PresignedURL_LeaksSecret(c, path, exp, sig) ==
    c.BaseURL \o path \o QAccessKey \o c.AccessKey \o c.SecretKey
        \o QExpires \o FormatInt(exp)
        \o QSignature \o QueryEscape(sig)

\* fmt.Sprintf("%s%s?X-Mos-AccessKey=%s&X-Mos-Expires=%d&X-Mos-Signature=%s", ...)
PresignedURL(c, path, exp, sig) ==
    c.BaseURL \o path \o QAccessKey \o c.AccessKey
        \o QExpires \o FormatInt(exp)
        \o QSignature \o QueryEscape(sig)

NoArgs == [c |-> 1, method |-> <<>>, path |-> <<>>, expiresIn |-> 0]

NoSigCall == [c |-> 1, method |-> <<>>, path |-> <<>>, expires |-> 0,
              stringToSign |-> <<>>, sig |-> <<>>]

\* No UploadOptions: the nil pointer, and the value read through it.
NilOptions == 0

NoOptions == [ExpiresIn |-> 0, Metadata |-> "nil"]

\* A call: the method, its filename or file path, its options pointer, the
\* value behind that pointer when the call began, the options value the call
\* made for itself, the local path of a download, and the place the call has
\* reached ("" once it returned).
NoOp == [name |-> "", filename |-> <<>>, opts |-> NilOptions, before |-> NoOptions,
         local |-> NoOptions, localPath |-> <<>>, at |-> ""]

\* The local paths a caller names: one where no file is yet, and one that
\* holds a file from earlier.
LocalPaths == {<<"n","e","w">>, <<"o","l","d">>}

\* What a local path holds: nothing ("absent"), the file from earlier
\* ("old"), a file that was created or truncated and not filled to the end
\* ("partial"), or the whole response body ("body").
NoFiles == [path \in LocalPaths |-> IF path = <<"n","e","w">> THEN "absent" ELSE "old"]

NoResp == [kind |-> "none", status |-> 0, body |-> <<>>, read |-> <<>>]

NoOutcome == [done |-> FALSE, value |-> "nil", err |-> <<>>]

\* A call of uploadWithRetry of the upload guide: where it stands, its
\* maxRetries, the loop variable attempt, lastErr (the status of the failed
\* attempt, 0 for a transport error, "nil" before one), the requests it has
\* issued, the URLs it has generated, the seconds it has slept, the answers
\* it has met (a status, or 0 for a transport error) and what it returned.
NoGuide == [pc |-> "idle", maxRetries |-> 0, attempt |-> 0,
            lastErr |-> [set |-> FALSE, status |-> 0],
            requests |-> 0, urls |-> 0, slept |-> <<>>, seen |-> <<>>,
            value |-> "nil", err |-> "nil"]

\* An error value: nil, an *HTTPError with its StatusCode, or another error.
NilError == [kind |-> "nil", status |-> 0]

\* A call of uploadWithRetry of the best practices: where it stands, its
\* maxRetries, the loop variable attempt, lastErr, the calls of uploadFile it
\* has made, the seconds it has slept before each retry, what the calls of
\* uploadFile returned, and the error it returned with.
NoRetry == [pc |-> "idle", maxRetries |-> 0, attempt |-> 0, lastErr |-> NilError,
            attempts |-> 0, slept |-> <<>>, seen |-> <<>>,
            err |-> NilError, wrapped |-> FALSE]

\* The most files and the largest maxConcurrent a caller passes.
MaxFiles == 3

MaxConcurrent == 2

\* A call of uploadFilesParallel: where the calling goroutine stands, the
\* number of files, maxConcurrent, the files the loop has started a goroutine
\* for, where each of these goroutines stands ("none" before it is started),
\* the values in the semaphore channel and in errChan, the WaitGroup counter,
\* the uploads that failed, and the count in the returned error (0 for nil).
NoPar == [pc |-> "idle", n |-> 0, m |-> 0, started |-> 0,
          g |-> [i \in 1..MaxFiles |-> "none"],
          semaphore |-> 0, errChan |-> 0, wg |-> 0,
          failed |-> {}, errors |-> 0]

\* Two clients built by NewClient that differ in their secret key only.
Init ==
    /\ \E b \in BaseURLs, pr \in ProjectIDs, bk \in BucketNames, ak \in AccessKeys :
          /\ given = [i \in ClientIds |->
                        <<b, pr, bk, ak, IF i = 1 THEN <<"k","1">> ELSE <<"k","2">> >>]
          /\ clients = [i \in ClientIds |->
                        NewClient(b, pr, bk, ak,
                                  IF i = 1 THEN <<"k","1">> ELSE <<"k","2">>)]
    /\ now = 0
    /\ pc = [p \in Procs |-> "idle"]
    /\ args = [p \in Procs |-> NoArgs]
    /\ readAt = [p \in Procs |-> 0]
    /\ expires = [p \in Procs |-> 0]
    /\ signature = [p \in Procs |-> <<>>]
    /\ result = [p \in Procs |-> <<>>]
    /\ sigCall = NoSigCall
    /\ sigSeen = NoSigCall
    /\ op = [p \in Procs |-> NoOp]
    /\ options = CallerOptions
    /\ resp = [p \in Procs |-> NoResp]
    /\ outcome = [p \in Procs |-> NoOutcome]
    /\ requests = [p \in Procs |-> 0]
    /\ urls = [p \in Procs |-> 0]
    /\ files = NoFiles
    /\ guide = NoGuide
    /\ retry = NoRetry
    /\ par = NoPar

(***************************************************************************)
(* Actions                                                                 *)
(***************************************************************************)
\* The wall clock advances.
Tick ==
    /\ now < MaxNow
    /\ now' = now + 1
    /\ UNCHANGED <<clients, pc, args, readAt, expires, signature, result, sigCall, sigSeen>>
    /\ UNCHANGED <<given, httpVars, docVars>>

\* A caller invokes c.GenerateSignature(method, path, e) directly.  The call
\* before it is either kept in sigSeen or forgotten, so that sigSeen can hold
\* any earlier call.
CallGenerateSignature(p, c, method, path, e) ==
    /\ pc[p] = "idle"
    /\ sigCall' = [c |-> c, method |-> method, path |-> path, expires |-> e,
                   stringToSign |-> StringToSign(method, path, e),
                   sig |-> GenerateSignature(clients[c], method, path, e)]
    /\ sigSeen' \in {sigSeen, sigCall}
    /\ UNCHANGED <<clients, now, pc, args, readAt, expires, signature, result>>
    /\ UNCHANGED <<given, httpVars, docVars>>

\* The exported methods that send an HTTP request.
HttpOps == {"Upload", "UploadBytes", "Download", "Delete"}

\* A goroutine whose last call has returned enters an exported method: what
\* the last call left is gone.
EnterAt(p, call) ==
    /\ op[p].at = ""
    /\ op' = [op EXCEPT ![p] = call]
    /\ resp' = [resp EXCEPT ![p] = NoResp]
    /\ outcome' = [outcome EXCEPT ![p] = NoOutcome]
    /\ requests' = [requests EXCEPT ![p] = 0]

\* The methods that send no HTTP request return from where they were entered.
Enter(p, name, filename, o) ==
    EnterAt(p, [name |-> name, filename |-> filename, opts |-> o,
                before |-> NoOptions, local |-> NoOptions, localPath |-> <<>>,
                at |-> ""])

\* GeneratePresignedURL, line 86: expires := time.Now().Add(expiresIn).Unix()
ReadClock(p, c, method, path, expiresIn) ==
    /\ pc[p] = "idle"
    /\ now <= MaxCallTime
    /\ args' = [args EXCEPT ![p] = [c |-> c, method |-> method, path |-> path,
                                    expiresIn |-> expiresIn]]
    /\ readAt' = [readAt EXCEPT ![p] = now]
    /\ expires' = [expires EXCEPT ![p] = ExpiresAt(now, expiresIn)]
    /\ signature' = [signature EXCEPT ![p] = <<>>]
    /\ result' = [result EXCEPT ![p] = <<>>]
    /\ pc' = [pc EXCEPT ![p] = "sign"]
    /\ UNCHANGED <<clients, now, sigCall, sigSeen, given, files, docVars>>

\* Faulty variant: the expiry is kept in one place for all goroutines, so a
\* call signs what the last call to read the clock has left there.
Sign_SharedExpires(p) ==
    /\ pc[p] = "sign"
    /\ signature' = [signature EXCEPT ![p] =
            GenerateSignature(clients[args[p].c], args[p].method, args[p].path,
                LET late == {q \in Procs : pc[q] # "idle" /\ readAt[q] > readAt[p]}
                IN  IF late = {} THEN expires[p] ELSE expires[CHOOSE q \in late : TRUE])]
    /\ pc' = [pc EXCEPT ![p] = "format"]
    /\ UNCHANGED <<clients, now, args, readAt, expires, result, sigCall, sigSeen>>
    /\ UNCHANGED <<given, httpVars, docVars>>

\* GeneratePresignedURL, line 87: signature := c.GenerateSignature(...)
Sign(p) ==
    /\ pc[p] = "sign"
    /\ signature' = [signature EXCEPT ![p] =
            GenerateSignature(clients[args[p].c], args[p].method, args[p].path,
                              expires[p])]
    /\ pc' = [pc EXCEPT ![p] = "format"]
    /\ UNCHANGED <<clients, now, args, readAt, expires, result, sigCall, sigSeen>>
    /\ UNCHANGED <<given, httpVars, docVars>>

\* Faulty variant: the URL is formatted with a second reading of the clock.
Return_RereadsClock(p) ==
    /\ pc[p] = "format"
    /\ result' = [result EXCEPT ![p] =
            PresignedURL(clients[args[p].c], args[p].path,
                         ExpiresAt(now, args[p].expiresIn), signature[p])]
    /\ pc' = [pc EXCEPT ![p] = "idle"]
    /\ urls' = [urls EXCEPT ![p] = urls[p] + 1]
    /\ UNCHANGED <<clients, now, args, readAt, expires, signature, sigCall, sigSeen>>
    /\ UNCHANGED <<given, op, options, resp, outcome, requests, files, docVars>>

\* GeneratePresignedURL, lines 89-95: return fmt.Sprintf(...)
Return(p) ==
    /\ pc[p] = "format"
    /\ result' = [result EXCEPT ![p] =
            PresignedURL(clients[args[p].c], args[p].path, expires[p], signature[p])]
    /\ pc' = [pc EXCEPT ![p] = "idle"]
    /\ urls' = [urls EXCEPT ![p] = urls[p] + 1]
    /\ UNCHANGED <<clients, now, args, readAt, expires, signature, sigCall, sigSeen>>
    /\ UNCHANGED <<given, op, options, resp, outcome, requests, files, docVars>>

\* A caller invokes c.GeneratePresignedURL(method, path, expiresIn) directly.
CallGeneratePresignedURL(p, c, method, path, expiresIn) ==
    /\ ReadClock(p, c, method, path, expiresIn)
    /\ Enter(p, "GeneratePresignedURL", <<>>, NilOptions)
    /\ urls' = [urls EXCEPT ![p] = 0]
    /\ UNCHANGED options

GeneratePresignedURL(p) ==
    \/ \E c \in ClientIds, method \in Methods, path \in Paths, d \in Durations :
          CallGeneratePresignedURL(p, c, method, path, d)
    \/ Sign(p)
    \/ Return(p)

DirectSignature(p) ==
    \E c \in ClientIds, method \in Methods, path \in Paths, e \in SigExpires :
        CallGenerateSignature(p, c, method, path, e)

Next ==
    \/ Tick
    \/ DirectSignature(1)
    \/ GeneratePresignedURL(1)

Spec == Init /\ [][Next]_vars

\* The signer alone: direct calls of GenerateSignature at any clock value.
SigNext ==
    \/ Tick
    \/ DirectSignature(1)

SigSpec == Init /\ [][SigNext]_vars

\* The life of presigned URLs: they are generated while the clock runs.
UrlNext ==
    \/ Tick
    \/ GeneratePresignedURL(1)

UrlSpec == Init /\ [][UrlNext]_vars

\* The clock keeps advancing.
UrlLiveSpec == UrlSpec /\ WF_vars(Tick)

(***************************************************************************)
(* The object URL builders: GetObjectURL, UploadObjectURL, DeleteObjectURL *)
(* and GetPublicObjectURL                                                  *)
(***************************************************************************)
\* Faulty variant: the filename is escaped on its way into the path.
GetObjectPath_Escaped(c, filename) ==
    <<"/","a","p","i","/","v","1","/","p","r","o","j","e","c","t","s","/">> \o c.ProjectID \o <<"/","b","u","c","k","e","t","s","/">>
        \o c.BucketName \o <<"/","o","b","j","e","c","t","s","/">> \o QueryEscape(filename)

\* fmt.Sprintf("/api/v1/projects/%s/buckets/%s/objects/%s", ...) of GetObjectURL
GetObjectPath(c, filename) ==
    <<"/","a","p","i","/","v","1","/","p","r","o","j","e","c","t","s","/">> \o c.ProjectID \o <<"/","b","u","c","k","e","t","s","/">>
        \o c.BucketName \o <<"/","o","b","j","e","c","t","s","/">> \o filename

\* fmt.Sprintf("/api/v1/projects/%s/buckets/%s/objects", ...) of UploadObjectURL
UploadObjectPath(c) ==
    <<"/","a","p","i","/","v","1","/","p","r","o","j","e","c","t","s","/">> \o c.ProjectID \o <<"/","b","u","c","k","e","t","s","/">>
        \o c.BucketName \o <<"/","o","b","j","e","c","t","s">>

\* fmt.Sprintf("/api/v1/projects/%s/buckets/%s/objects/%s", ...) of DeleteObjectURL
DeleteObjectPath(c, filename) ==
    <<"/","a","p","i","/","v","1","/","p","r","o","j","e","c","t","s","/">> \o c.ProjectID \o <<"/","b","u","c","k","e","t","s","/">>
        \o c.BucketName \o <<"/","o","b","j","e","c","t","s","/">> \o filename

\* Faulty variant: the URL carries the time of the call.
GetPublicObjectURL_Stamped(c, filename) ==
    c.BaseURL \o <<"/","a","p","i","/","v","1","/","p","u","b","l","i","c","/","p","r","o","j","e","c","t","s","/">> \o c.ProjectID
        \o <<"/","b","u","c","k","e","t","s","/">> \o c.BucketName \o <<"/">> \o filename
        \o <<"?","t","=">> \o FormatInt(now)

\* fmt.Sprintf("%s/api/v1/public/projects/%s/buckets/%s/%s", ...)
GetPublicObjectURL(c, filename) ==
    c.BaseURL \o <<"/","a","p","i","/","v","1","/","p","u","b","l","i","c","/","p","r","o","j","e","c","t","s","/">> \o c.ProjectID
        \o <<"/","b","u","c","k","e","t","s","/">> \o c.BucketName \o <<"/">> \o filename

\* c.GetObjectURL(filename, expiresIn): lines 104-105, into GeneratePresignedURL.
CallGetObjectURL(p, c, filename, expiresIn) ==
    /\ ReadClock(p, c, GET, GetObjectPath(clients[c], filename), expiresIn)
    /\ Enter(p, "GetObjectURL", filename, NilOptions)
    /\ urls' = [urls EXCEPT ![p] = 0]
    /\ UNCHANGED options

\* c.UploadObjectURL(expiresIn): lines 115-116, into GeneratePresignedURL.
CallUploadObjectURL(p, c, expiresIn) ==
    /\ ReadClock(p, c, POST, UploadObjectPath(clients[c]), expiresIn)
    /\ Enter(p, "UploadObjectURL", <<>>, NilOptions)
    /\ urls' = [urls EXCEPT ![p] = 0]
    /\ UNCHANGED options

\* Faulty variant: the delete URL is signed as a GET request.
CallDeleteObjectURL_SignedAsGet(p, c, filename, expiresIn) ==
    /\ ReadClock(p, c, GET, DeleteObjectPath(clients[c], filename), expiresIn)
    /\ Enter(p, "DeleteObjectURL", filename, NilOptions)
    /\ urls' = [urls EXCEPT ![p] = 0]
    /\ UNCHANGED options

\* c.DeleteObjectURL(filename, expiresIn): lines 125-126, into GeneratePresignedURL.
CallDeleteObjectURL(p, c, filename, expiresIn) ==
    /\ ReadClock(p, c, DELETE, DeleteObjectPath(clients[c], filename), expiresIn)
    /\ Enter(p, "DeleteObjectURL", filename, NilOptions)
    /\ urls' = [urls EXCEPT ![p] = 0]
    /\ UNCHANGED options

\* c.GetPublicObjectURL(filename): lines 140-145, one step.
CallGetPublicObjectURL(p, c, filename) ==
    /\ pc[p] = "idle"
    /\ args' = [args EXCEPT ![p] = [c |-> c, method |-> <<>>, path |-> <<>>,
                                    expiresIn |-> 0]]
    /\ readAt' = [readAt EXCEPT ![p] = now]
    /\ expires' = [expires EXCEPT ![p] = 0]
    /\ signature' = [signature EXCEPT ![p] = <<>>]
    /\ result' = [result EXCEPT ![p] = GetPublicObjectURL(clients[c], filename)]
    /\ Enter(p, "GetPublicObjectURL", filename, NilOptions)
    /\ urls' = [urls EXCEPT ![p] = 1]
    /\ UNCHANGED <<clients, now, pc, sigCall, sigSeen, given, options, files, docVars>>

ObjectURL(p) ==
    \/ \E c \in ClientIds, filename \in Filenames, d \in Durations :
          CallGetObjectURL(p, c, filename, d)
    \/ \E c \in ClientIds, d \in Durations : CallUploadObjectURL(p, c, d)
    \/ \E c \in ClientIds, filename \in Filenames, d \in Durations :
          CallDeleteObjectURL(p, c, filename, d)
    \/ Sign(p)
    \/ Return(p)

PublicURL(p) ==
    \E c \in ClientIds, filename \in Filenames : CallGetPublicObjectURL(p, c, filename)

\* The builders alone, called one after the other while the clock runs.
BuilderNext ==
    \/ Tick
    \/ ObjectURL(1)
    \/ PublicURL(1)

BuilderSpec == Init /\ [][BuilderNext]_vars

\* Two goroutines, each on a client of its choice, generate presigned URLs for
\* one request and public URLs while the clock runs.
TwinCall(p) ==
    \/ \E c \in ClientIds : CallGeneratePresignedURL(p, c, GET, <<"/","a">>, TicksPerSec)
    \/ Sign(p)
    \/ Return(p)
    \/ \E c \in ClientIds :
          now <= MaxCallTime /\ CallGetPublicObjectURL(p, c, <<"f",".","j">>)

TwinNext ==
    \/ Tick
    \/ \E p \in Procs : TwinCall(p)

TwinSpec == Init /\ [][TwinNext]_vars

(***************************************************************************)
(* Upload, UploadBytes, Download and Delete                                *)
(***************************************************************************)
\* time.Hour, in ticks.
Hour == 3600 * TicksPerSec

\* DefaultOptions(): PresignedURLOptions{ExpiresIn: time.Hour}
DefaultOptions == [ExpiresIn |-> Hour]

\* http.StatusOK, http.StatusCreated, http.StatusNoContent
StatusOK == 200

StatusCreated == 201

StatusNoContent == 204

\* The options a call of Upload or UploadBytes reads: the caller's value, or
\* its own &UploadOptions{ExpiresIn: time.Hour} when the caller passed nil.
Opts(p) == IF op[p].opts = NilOptions THEN op[p].local ELSE options[op[p].opts]

\* The receiver of the goroutine's call.
Receiver(p) == clients[args[p].c]

\* fmt.Errorf(prefix + ": %w", err)
Errorf(prefix, err) == prefix \o <<":"," ">> \o err

\* fmt.Errorf(prefix + " %d: %s", resp.StatusCode, string(bodyBytes))
StatusErrorf(prefix, status, bodyBytes) ==
    prefix \o <<" ">> \o FormatInt(status) \o <<":"," ">> \o bodyBytes

\* The text of an error of the operating system, the network or a decoder.
ErrText == <<"E","O","F">>

Failed(err) == [done |-> TRUE, value |-> "nil", err |-> err]

Succeeded(value) == [done |-> TRUE, value |-> value, err |-> <<>>]

\* json.NewDecoder(resp.Body).Decode(&fileResp) succeeds on a body that was
\* read to its end and holds a JSON object.
JSONBodies == {<<"{","}">>}

Decodes(r) == r.read = r.body /\ r.body \in JSONBodies

\* http.NewRequest and http.Get parse the URL: a control character or a '%'
\* that does not start an escape makes them fail.
NewRequestOk(rawURL) ==
    /\ NL \notin Range(rawURL)
    /\ UnescapeOk(CutBefore(CutBefore(rawURL, "#"), "?"))

\* Faulty variant: a rejected upload is reported without the body.
UploadOutcome_NoBody(r) ==
    IF r.kind = "error" THEN Failed(Errorf(<<"f","a","i","l","e","d"," ","t","o"," ","u","p","l","o","a","d"," ","f","i","l","e">>, ErrText))
    ELSE IF r.status # StatusCreated THEN
        Failed(StatusErrorf(<<"u","p","l","o","a","d"," ","f","a","i","l","e","d"," ","w","i","t","h"," ","s","t","a","t","u","s">>, r.status, <<>>))
    ELSE IF ~Decodes(r) THEN Failed(Errorf(<<"f","a","i","l","e","d"," ","t","o"," ","p","a","r","s","e"," ","r","e","s","p","o","n","s","e">>, ErrText))
    ELSE Succeeded("FileResponse")

\* Upload, lines 233-251, and UploadBytes, lines 313-331
UploadOutcome(r) ==
    IF r.kind = "error" THEN Failed(Errorf(<<"f","a","i","l","e","d"," ","t","o"," ","u","p","l","o","a","d"," ","f","i","l","e">>, ErrText))
    ELSE IF r.status # StatusCreated THEN
        Failed(StatusErrorf(<<"u","p","l","o","a","d"," ","f","a","i","l","e","d"," ","w","i","t","h"," ","s","t","a","t","u","s">>, r.status, r.read))
    ELSE IF ~Decodes(r) THEN Failed(Errorf(<<"f","a","i","l","e","d"," ","t","o"," ","p","a","r","s","e"," ","r","e","s","p","o","n","s","e">>, ErrText))
    ELSE Succeeded("FileResponse")

\* Download, lines 348-371; fs is what os.Create and io.Copy met.
DownloadOutcome(r, fs) ==
    IF r.kind = "error" THEN Failed(Errorf(<<"f","a","i","l","e","d"," ","t","o"," ","d","o","w","n","l","o","a","d"," ","f","i","l","e">>, ErrText))
    ELSE IF r.status # StatusOK THEN
        Failed(StatusErrorf(<<"d","o","w","n","l","o","a","d"," ","f","a","i","l","e","d"," ","w","i","t","h"," ","s","t","a","t","u","s">>, r.status, r.read))
    ELSE IF fs = "create" THEN Failed(Errorf(<<"f","a","i","l","e","d"," ","t","o"," ","c","r","e","a","t","e"," ","l","o","c","a","l"," ","f","i","l","e">>, ErrText))
    ELSE IF fs = "copy" \/ r.read # r.body THEN
        Failed(Errorf(<<"f","a","i","l","e","d"," ","t","o"," ","s","a","v","e"," ","f","i","l","e">>, ErrText))
    ELSE Succeeded("nil")

\* Faulty variant: the local file is created as soon as a response is there,
\* before its status is looked at.
SavedFile_CreatedFirst(r, fs, was) ==
    IF r.kind = "error" THEN was
    ELSE IF r.status # StatusOK THEN "partial"
    ELSE IF fs = "create" THEN was
    ELSE IF fs = "copy" \/ r.read # r.body THEN "partial"
    ELSE "body"

\* Download, lines 348-369: what the file at localPath holds when the call
\* returns.  os.Create comes after the checks of the transport error and of
\* the status; it creates the file or truncates it, and io.Copy fills it.
SavedFile(r, fs, was) ==
    IF r.kind = "error" \/ r.status # StatusOK THEN was
    ELSE IF fs = "create" THEN was
    ELSE IF fs = "copy" \/ r.read # r.body THEN "partial"
    ELSE "body"

\* Faulty variant: every 2xx status counts as a successful delete.
DeleteOutcome_Any2xx(r) ==
    IF r.kind = "error" THEN Failed(Errorf(<<"f","a","i","l","e","d"," ","t","o"," ","d","e","l","e","t","e"," ","f","i","l","e">>, ErrText))
    ELSE IF r.status < 200 \/ r.status > 299 THEN
        Failed(StatusErrorf(<<"d","e","l","e","t","e"," ","f","a","i","l","e","d"," ","w","i","t","h"," ","s","t","a","t","u","s">>, r.status, r.read))
    ELSE Succeeded("nil")

\* Delete, lines 393-404
DeleteOutcome(r) ==
    IF r.kind = "error" THEN Failed(Errorf(<<"f","a","i","l","e","d"," ","t","o"," ","d","e","l","e","t","e"," ","f","i","l","e">>, ErrText))
    ELSE IF r.status # StatusNoContent THEN
        Failed(StatusErrorf(<<"d","e","l","e","t","e"," ","f","a","i","l","e","d"," ","w","i","t","h"," ","s","t","a","t","u","s">>, r.status, r.read))
    ELSE Succeeded("nil")

\* The receiver and nothing else: the call has not reached GeneratePresignedURL.
ClearLocals(p, c, expiresIn) ==
    /\ args' = [args EXCEPT ![p] = [c |-> c, method |-> <<>>, path |-> <<>>,
                                    expiresIn |-> expiresIn]]
    /\ readAt' = [readAt EXCEPT ![p] = now]
    /\ expires' = [expires EXCEPT ![p] = 0]
    /\ signature' = [signature EXCEPT ![p] = <<>>]
    /\ result' = [result EXCEPT ![p] = <<>>]

\* Faulty variant: every ExpiresIn that is not positive is taken for unset
\* and replaced by the default.
SetDefaults_NonPositive(p, c, name, filename, o) ==
    /\ pc[p] = "idle"
    /\ now <= MaxCallTime
    /\ EnterAt(p, [name |-> name, filename |-> filename, opts |-> o,
                   before |-> IF o = NilOptions THEN NoOptions ELSE options[o],
                   local |-> IF o = NilOptions
                             THEN [ExpiresIn |-> Hour, Metadata |-> "nil"]
                             ELSE NoOptions,
                   localPath |-> <<>>,
                   at |-> "body"])
    /\ options' = IF o # NilOptions /\ options[o].ExpiresIn <= 0
                  THEN [options EXCEPT ![o].ExpiresIn = Hour]
                  ELSE options
    /\ ClearLocals(p, c, 0)
    /\ urls' = [urls EXCEPT ![p] = 0]
    /\ UNCHANGED <<clients, now, pc, sigCall, sigSeen, given, files, docVars>>

\* Upload, lines 182-187, and UploadBytes, lines 269-274: nil options become
\* the call's own value, and an ExpiresIn of 0 is overwritten in place.
SetDefaults(p, c, name, filename, o) ==
    /\ pc[p] = "idle"
    /\ now <= MaxCallTime
    /\ EnterAt(p, [name |-> name, filename |-> filename, opts |-> o,
                   before |-> IF o = NilOptions THEN NoOptions ELSE options[o],
                   local |-> IF o = NilOptions
                             THEN [ExpiresIn |-> Hour, Metadata |-> "nil"]
                             ELSE NoOptions,
                   localPath |-> <<>>,
                   at |-> "body"])
    /\ options' = IF o # NilOptions /\ options[o].ExpiresIn = 0
                  THEN [options EXCEPT ![o].ExpiresIn = Hour]
                  ELSE options
    /\ ClearLocals(p, c, 0)
    /\ urls' = [urls EXCEPT ![p] = 0]
    /\ UNCHANGED <<clients, now, pc, sigCall, sigSeen, given, files, docVars>>

\* c.Upload(filePath, opts)
CallUpload(p, c, filePath, o) == SetDefaults(p, c, "Upload", filePath, o)

\* c.UploadBytes(filename, data, opts)
CallUploadBytes(p, c, filename, o) == SetDefaults(p, c, "UploadBytes", filename, o)

\* The local steps that can fail: os.Open and io.Copy in Upload, json.Marshal
\* in both when there is metadata.
LocalFailures(p) ==
    (IF op[p].name = "Upload" THEN {"open", "copy"} ELSE {})
        \cup (IF Opts(p).Metadata # "nil" THEN {"marshal"} ELSE {})

LocalError(fail) ==
    IF fail = "open" THEN Errorf(<<"f","a","i","l","e","d"," ","t","o"," ","o","p","e","n"," ","f","i","l","e">>, ErrText)
    ELSE IF fail = "copy" THEN Errorf(<<"f","a","i","l","e","d"," ","t","o"," ","c","o","p","y"," ","f","i","l","e"," ","d","a","t","a">>, ErrText)
    ELSE Errorf(<<"f","a","i","l","e","d"," ","t","o"," ","m","a","r","s","h","a","l"," ","m","e","t","a","d","a","t","a">>, ErrText)

\* Faulty variant: the upload URL is generated first, and the local steps
\* that can fail come after it.
BuildBody_AfterURL(p) ==
    /\ op[p].at = "body"
    /\ \E fail \in LocalFailures(p) \cup {"none"} :
          IF fail = "none"
          THEN /\ op' = [op EXCEPT ![p].at = "url"]
               /\ UNCHANGED <<outcome, result, urls>>
          ELSE /\ op' = [op EXCEPT ![p].at = ""]
               /\ outcome' = [outcome EXCEPT ![p] = Failed(LocalError(fail))]
               /\ result' = [result EXCEPT ![p] =
                     PresignedURL(Receiver(p), UploadObjectPath(Receiver(p)),
                                  ExpiresAt(now, Opts(p).ExpiresIn),
                                  GenerateSignature(Receiver(p), POST,
                                                    UploadObjectPath(Receiver(p)),
                                                    ExpiresAt(now, Opts(p).ExpiresIn)))]
               /\ urls' = [urls EXCEPT ![p] = 1]
    /\ UNCHANGED <<clients, now, pc, args, readAt, expires, signature,
                   sigCall, sigSeen, given, options, resp, requests, files, docVars>>

\* Upload, lines 189-220, and UploadBytes, lines 276-300: the multipart body.
BuildBody(p) ==
    /\ op[p].at = "body"
    /\ \E fail \in LocalFailures(p) \cup {"none"} :
          IF fail = "none"
          THEN /\ op' = [op EXCEPT ![p].at = "url"]
               /\ UNCHANGED outcome
          ELSE /\ op' = [op EXCEPT ![p].at = ""]
               /\ outcome' = [outcome EXCEPT ![p] = Failed(LocalError(fail))]
    /\ UNCHANGED <<clients, now, pc, args, readAt, expires, signature, result,
                   sigCall, sigSeen, given, options, resp, requests, urls, files, docVars>>

\* Upload, line 223, and UploadBytes, line 303:
\* uploadURL := c.UploadObjectURL(opts.ExpiresIn)
UploadURL(p) ==
    /\ op[p].at = "url"
    /\ ReadClock(p, args[p].c, POST, UploadObjectPath(Receiver(p)), Opts(p).ExpiresIn)
    /\ op' = [op EXCEPT ![p].at = "signed"]
    /\ UNCHANGED <<options, resp, outcome, requests, urls>>

\* c.Delete(filename, expiresIn), line 384: url := c.DeleteObjectURL(...)
CallDelete(p, c, filename, expiresIn) ==
    /\ ReadClock(p, c, DELETE, DeleteObjectPath(clients[c], filename), expiresIn)
    /\ EnterAt(p, [name |-> "Delete", filename |-> filename, opts |-> NilOptions,
                   before |-> NoOptions, local |-> NoOptions, localPath |-> <<>>,
                   at |-> "signed"])
    /\ urls' = [urls EXCEPT ![p] = 0]
    /\ UNCHANGED options

\* c.Download(filename, localPath, expiresIn), line 345:
\* url := c.GetPublicObjectURL(filename)
CallDownload(p, c, filename, localPath, expiresIn) ==
    /\ pc[p] = "idle"
    /\ now <= MaxCallTime
    /\ EnterAt(p, [name |-> "Download", filename |-> filename, opts |-> NilOptions,
                   before |-> NoOptions, local |-> NoOptions, localPath |-> localPath,
                   at |-> "signed"])
    /\ args' = [args EXCEPT ![p] = [c |-> c, method |-> <<>>, path |-> <<>>,
                                    expiresIn |-> expiresIn]]
    /\ readAt' = [readAt EXCEPT ![p] = now]
    /\ expires' = [expires EXCEPT ![p] = 0]
    /\ signature' = [signature EXCEPT ![p] = <<>>]
    /\ result' = [result EXCEPT ![p] = GetPublicObjectURL(clients[c], filename)]
    /\ urls' = [urls EXCEPT ![p] = 1]
    /\ UNCHANGED <<clients, now, pc, sigCall, sigSeen, given, options, files, docVars>>

\* The error of a request that could not be made: http.NewRequest in Upload,
\* UploadBytes and Delete, http.Get in Download.
RequestError(name) ==
    IF name = "Download" THEN Errorf(<<"f","a","i","l","e","d"," ","t","o"," ","d","o","w","n","l","o","a","d"," ","f","i","l","e">>, ErrText)
    ELSE Errorf(<<"f","a","i","l","e","d"," ","t","o"," ","c","r","e","a","t","e"," ","r","e","q","u","e","s","t">>, ErrText)

\* Upload, lines 226-233, UploadBytes, lines 306-313, Delete, lines 387-393,
\* Download, line 348: the request is made and handed to the HTTP client.
SendRequest(p) ==
    /\ op[p].at = "signed"
    /\ pc[p] = "idle"
    /\ IF NewRequestOk(result[p])
       THEN /\ requests' = [requests EXCEPT ![p] = requests[p] + 1]
            /\ op' = [op EXCEPT ![p].at = "await"]
            /\ UNCHANGED outcome
       ELSE /\ outcome' = [outcome EXCEPT ![p] = Failed(RequestError(op[p].name))]
            /\ op' = [op EXCEPT ![p].at = ""]
            /\ UNCHANGED requests
    /\ UNCHANGED <<clients, now, pc, args, readAt, expires, signature, result,
                   sigCall, sigSeen, given, options, resp, urls, files, docVars>>

\* What the network can give a request: a transport error, or a response
\* whose body is read to its end or breaks off.
Statuses == {StatusOK, StatusCreated, StatusNoContent, 404, 500}

Bodies == {<<"{","}">>, <<"n","o">>}

Responses ==
    {[kind |-> "error", status |-> 0, body |-> <<>>, read |-> <<>>]}
        \cup {[kind |-> "response", status |-> st, body |-> b,
                 read |-> IF whole THEN b ELSE SubSeq(b, 1, Len(b) - 1)] :
                 st \in Statuses, b \in Bodies, whole \in BOOLEAN}

\* Faulty variant: a 5xx answer sends the request again.
Respond_Retry(p) ==
    /\ op[p].at = "await"
    /\ \E r \in Responses, fs \in {"none", "create", "copy"} :
          /\ fs # "none" => (op[p].name = "Download" /\ r.kind = "response"
                               /\ r.status = StatusOK)
          /\ resp' = [resp EXCEPT ![p] = r]
          /\ files' = IF op[p].name = "Download"
                      THEN [files EXCEPT ![op[p].localPath] = SavedFile(r, fs, @)]
                      ELSE files
          /\ IF r.kind = "response" /\ r.status >= 500 /\ requests[p] < 2
             THEN /\ op' = [op EXCEPT ![p].at = "signed"]
                  /\ UNCHANGED outcome
             ELSE /\ op' = [op EXCEPT ![p].at = ""]
                  /\ outcome' = [outcome EXCEPT ![p] =
                        IF op[p].name \in {"Upload", "UploadBytes"} THEN UploadOutcome(r)
                        ELSE IF op[p].name = "Download" THEN DownloadOutcome(r, fs)
                        ELSE DeleteOutcome(r)]
    /\ UNCHANGED <<clients, now, pc, args, readAt, expires, signature, result,
                   sigCall, sigSeen, given, options, requests, urls, docVars>>

\* Faulty variant: the calls keep their response in one shared place, so a
\* call that finds another call's response there reports that one.
Respond_SharedResponse(p) ==
    /\ op[p].at = "await"
    /\ \E r \in Responses, fs \in {"none", "create", "copy"} :
          /\ fs # "none" => (op[p].name = "Download" /\ r.kind = "response"
                               /\ r.status = StatusOK)
          /\ resp' = [resp EXCEPT ![p] = r]
          /\ files' = IF op[p].name = "Download"
                      THEN [files EXCEPT ![op[p].localPath] = SavedFile(r, fs, @)]
                      ELSE files
          /\ op' = [op EXCEPT ![p].at = ""]
          /\ outcome' = [outcome EXCEPT ![p] =
                LET others == {q \in Procs : q # p /\ resp[q].kind # "none"}
                    seen   == IF others = {} THEN r ELSE resp[CHOOSE q \in others : TRUE]
                IN  IF op[p].name \in {"Upload", "UploadBytes"} THEN UploadOutcome(seen)
                    ELSE IF op[p].name = "Download" THEN DownloadOutcome(seen, fs)
                    ELSE DeleteOutcome(seen)]
    /\ UNCHANGED <<clients, now, pc, args, readAt, expires, signature, result,
                   sigCall, sigSeen, given, options, requests, urls, docVars>>

\* The response or the transport error arrives, and the call returns: Upload,
\* lines 234-251, UploadBytes, lines 314-331, Download, lines 349-371, Delete,
\* lines 394-404.
Respond(p) ==
    /\ op[p].at = "await"
    /\ \E r \in Responses, fs \in {"none", "create", "copy"} :
          /\ fs # "none" => (op[p].name = "Download" /\ r.kind = "response"
                               /\ r.status = StatusOK)
          /\ resp' = [resp EXCEPT ![p] = r]
          /\ files' = IF op[p].name = "Download"
                      THEN [files EXCEPT ![op[p].localPath] = SavedFile(r, fs, @)]
                      ELSE files
          /\ op' = [op EXCEPT ![p].at = ""]
          /\ outcome' = [outcome EXCEPT ![p] =
                IF op[p].name \in {"Upload", "UploadBytes"} THEN UploadOutcome(r)
                ELSE IF op[p].name = "Download" THEN DownloadOutcome(r, fs)
                ELSE DeleteOutcome(r)]
    /\ UNCHANGED <<clients, now, pc, args, readAt, expires, signature, result,
                   sigCall, sigSeen, given, options, requests, urls, docVars>>

\* The name UploadBytes gives the form file, and the duration handed to
\* Download and Delete.
FormNames == {<<"f",".","j">>}

HttpDurations == {TicksPerSec}

\* One goroutine's calls of Upload, UploadBytes, Download and Delete on the
\* first client.
HttpCall(p) ==
    \/ \E filePath \in FilePaths, o \in OptionIds \cup {NilOptions} :
          CallUpload(p, 1, filePath, o)
    \/ \E filename \in FormNames, o \in OptionIds \cup {NilOptions} :
          CallUploadBytes(p, 1, filename, o)
    \/ BuildBody(p)
    \/ UploadURL(p)
    \/ \E filename \in Filenames, d \in HttpDurations : CallDelete(p, 1, filename, d)
    \/ \E filename \in Filenames, d \in HttpDurations :
          CallDownload(p, 1, filename, <<"n","e","w">>, d)
    \/ Sign(p)
    \/ Return(p)
    \/ SendRequest(p)
    \/ Respond(p)

\* The clock while calls can still begin.
EarlyTick == Tick /\ now < MaxCallTime

\* The HTTP operations, called one after the other.
HttpNext ==
    \/ EarlyTick
    \/ HttpCall(1)

HttpSpec == Init /\ [][HttpNext]_vars

\* One goroutine's calls of the six methods that send no request, on the
\* first client and for one request each.
SignerEntry(p) ==
    \/ CallGenerateSignature(p, 1, GET, <<"/","a">>, MaxExpires) /\ sigSeen' = sigSeen
    \/ CallGeneratePresignedURL(p, 1, GET, <<"/","a">>, TicksPerSec + 1)
    \/ CallGetObjectURL(p, 1, <<"f",".","j">>, TicksPerSec + 1)
    \/ CallUploadObjectURL(p, 1, TicksPerSec + 1)
    \/ CallDeleteObjectURL(p, 1, <<"f",".","j">>, TicksPerSec + 1)
    \/ now <= MaxCallTime /\ CallGetPublicObjectURL(p, 1, <<"f",".","j">>)

\* Every exported operation of the library, called one after the other in any
\* order.
LibNext ==
    \/ EarlyTick
    \/ SignerEntry(1)
    \/ HttpCall(1)

LibSpec == Init /\ [][LibNext]_vars

\* GeneratePresignedURL and the three builders, called with well-formed and
\* with malformed arguments: an empty method, an empty path, a zero and a
\* negative duration.
ArgCall(p) ==
    \/ \E method \in {<<>>, GET}, path \in {<<>>, <<"/","a">>},
          d \in {0 - TicksPerSec, 0, TicksPerSec} :
          CallGeneratePresignedURL(p, 1, method, path, d)
    \/ \E d \in {0 - TicksPerSec, 0, TicksPerSec} :
          \/ CallGetObjectURL(p, 1, <<"f",".","j">>, d)
          \/ CallUploadObjectURL(p, 1, d)
          \/ CallDeleteObjectURL(p, 1, <<"f",".","j">>, d)
    \/ Sign(p)
    \/ Return(p)

ArgNext ==
    \/ Tick
    \/ ArgCall(1)

ArgSpec == Init /\ [][ArgNext]_vars

\* Two goroutines call the six signer methods on the first client at the same
\* time, while the clock runs.
PairNext ==
    \/ EarlyTick
    \/ \E p \in Procs : SignerEntry(p) \/ Sign(p) \/ Return(p)

PairSpec == Init /\ [][PairNext]_vars

\* Downloads, one after the other, of every filename to a local path that
\* holds no file and to one that holds a file from earlier.
DownloadCall(p) ==
    \/ \E filename \in Filenames, localPath \in LocalPaths, d \in HttpDurations :
          CallDownload(p, 1, filename, localPath, d)
    \/ SendRequest(p)
    \/ Respond(p)

DownloadNext ==
    \/ EarlyTick
    \/ DownloadCall(1)

DownloadSpec == Init /\ [][DownloadNext]_vars

(***************************************************************************)
(* uploadWithRetry of the upload guide (docs/upload-guide.md)              *)
(***************************************************************************)
\* The largest maxRetries a caller passes.
MaxRetries == 3

\* http.StatusBadRequest, http.StatusUnauthorized, http.StatusTooManyRequests
StatusBadRequest == 400

StatusUnauthorized == 401

StatusTooManyRequests == 429

\* What http.DefaultClient.Do gives an attempt: a transport error (0) or a
\* response with one of these statuses; a 201 comes with a body that decodes
\* or with one that does not.
TransportError == 0

GuideAnswers == {TransportError, StatusCreated, StatusBadRequest, StatusUnauthorized,
                 404, StatusTooManyRequests, 500}

\* uploadWithRetry(client, filePath, maxRetries), lines 457-460
CallGuide(maxRetries) ==
    /\ guide.pc = "idle"
    /\ guide' = [NoGuide EXCEPT !.pc = "loop", !.maxRetries = maxRetries]
    /\ UNCHANGED <<libVars, retry, par>>

\* Lines 460-489: one pass of the loop up to http.DefaultClient.Do.  A retry
\* sleeps attempt seconds first; os.Open can fail and end the call.
GuideAttempt ==
    /\ guide.pc = "loop"
    /\ guide.attempt <= guide.maxRetries
    /\ \E opened \in BOOLEAN :
          guide' = [guide EXCEPT
                !.slept = IF guide.attempt > 0 THEN Append(@, guide.attempt) ELSE @,
                !.urls = @ + 1,
                !.requests = IF opened THEN @ + 1 ELSE @,
                !.pc = IF opened THEN "await" ELSE "done",
                !.err = IF opened THEN @ ELSE "open"]
    /\ UNCHANGED <<libVars, retry, par>>

\* Lines 489-537: the answer of the attempt.  A transport error is kept in
\* lastErr and the loop continues; a 201 ends the call, with the decoded
\* response or the decoder's error; 400 and 401 end the call; 429 sleeps
\* five seconds and continues; every other status continues.
GuideRespond ==
    /\ guide.pc = "await"
    /\ \E status \in GuideAnswers, decodes \in BOOLEAN :
          /\ ~decodes => status = StatusCreated
          /\ guide' =
                IF status = TransportError THEN
                    [guide EXCEPT !.seen = Append(@, status), !.pc = "loop",
                                  !.lastErr = [set |-> TRUE, status |-> status],
                                  !.attempt = @ + 1]
                ELSE IF status = StatusCreated THEN
                    [guide EXCEPT !.seen = Append(@, status), !.pc = "done",
                                  !.value = IF decodes THEN "FileResponse" ELSE "nil",
                                  !.err = IF decodes THEN "nil" ELSE "decode"]
                ELSE IF status \in {StatusBadRequest, StatusUnauthorized} THEN
                    [guide EXCEPT !.seen = Append(@, status), !.pc = "done",
                                  !.err = "UploadError"]
                ELSE IF status = StatusTooManyRequests THEN
                    [guide EXCEPT !.seen = Append(@, status), !.pc = "loop",
                                  !.slept = Append(@, 5),
                                  !.lastErr = [set |-> TRUE, status |-> status],
                                  !.attempt = @ + 1]
                ELSE
                    [guide EXCEPT !.seen = Append(@, status), !.pc = "loop",
                                  !.lastErr = [set |-> TRUE, status |-> status],
                                  !.attempt = @ + 1]
    /\ UNCHANGED <<libVars, retry, par>>

\* Line 540: the loop has ended without a return.
GuideGiveUp ==
    /\ guide.pc = "loop"
    /\ guide.attempt > guide.maxRetries
    /\ guide' = [guide EXCEPT !.pc = "done", !.err = "retries"]
    /\ UNCHANGED <<libVars, retry, par>>

GuideNext ==
    \/ \E maxRetries \in 0..MaxRetries : CallGuide(maxRetries)
    \/ GuideAttempt
    \/ GuideRespond
    \/ GuideGiveUp

GuideSpec == Init /\ [][GuideNext]_vars

(***************************************************************************)
(* uploadWithRetry of the best practices (docs/best-practices.md)          *)
(***************************************************************************)
\* &HTTPError{StatusCode: status}
HTTPError(status) == [kind |-> "HTTPError", status |-> status]

\* An error that is no *HTTPError: a transport error, a file that is missing.
OtherError == [kind |-> "error", status |-> 0]

\* What uploadFile(client, filePath) returns: nil, an *HTTPError with the
\* status of a rejected request, or another error.
UploadFileResults ==
    {NilError, OtherError} \cup {HTTPError(status) : status \in {400, 404, 500, 503}}

\* isClientError(err), lines 444-450
isClientError(err) ==
    IF err.kind = "HTTPError" THEN err.status >= 400 /\ err.status < 500 ELSE FALSE

\* Faulty variant: the wait grows by one second with every retry.
Backoff_Linear(attempt) == attempt

\* Line 423: time.Duration(1<<uint(attempt-1)) * time.Second, in seconds.
Backoff(attempt) == 2 ^ (attempt - 1)

\* uploadWithRetry(client, filePath, maxRetries), lines 417-420
CallRetry(maxRetries) ==
    /\ retry.pc = "idle"
    /\ retry' = [NoRetry EXCEPT !.pc = "loop", !.maxRetries = maxRetries]
    /\ UNCHANGED <<libVars, guide, par>>

\* Lines 420-428: one pass of the loop up to the call of uploadFile; a retry
\* sleeps first.
RetryAttempt ==
    /\ retry.pc = "loop"
    /\ retry.attempt <= retry.maxRetries
    /\ retry' = [retry EXCEPT
            !.slept = IF retry.attempt > 0 THEN Append(@, Backoff(retry.attempt)) ELSE @,
            !.attempts = @ + 1,
            !.pc = "upload"]
    /\ UNCHANGED <<libVars, guide, par>>

\* Lines 428-439: uploadFile returns.  nil ends the call with nil, a client
\* error ends it with that error, any other error is kept in lastErr.
RetryResult ==
    /\ retry.pc = "upload"
    /\ \E err \in UploadFileResults :
          retry' =
              IF err = NilError THEN
                  [retry EXCEPT !.seen = Append(@, err), !.pc = "done"]
              ELSE IF isClientError(err) THEN
                  [retry EXCEPT !.seen = Append(@, err), !.pc = "done", !.err = err]
              ELSE
                  [retry EXCEPT !.seen = Append(@, err), !.pc = "loop",
                                !.lastErr = err, !.attempt = @ + 1]
    /\ UNCHANGED <<libVars, guide, par>>

\* Line 441: return fmt.Errorf("failed after %d retries: %w", maxRetries, lastErr)
RetryGiveUp ==
    /\ retry.pc = "loop"
    /\ retry.attempt > retry.maxRetries
    /\ retry' = [retry EXCEPT !.pc = "done", !.err = retry.lastErr, !.wrapped = TRUE]
    /\ UNCHANGED <<libVars, guide, par>>

RetryNext ==
    \/ \E maxRetries \in 0..MaxRetries : CallRetry(maxRetries)
    \/ RetryAttempt
    \/ RetryResult
    \/ RetryGiveUp

RetrySpec == Init /\ [][RetryNext]_vars

\* The goroutine that runs uploadWithRetry keeps running, and uploadFile
\* returns.
RetryLiveSpec == RetrySpec /\ WF_vars(RetryNext)

(***************************************************************************)
(* uploadFilesParallel of the best practices (docs/best-practices.md)      *)
(***************************************************************************)
\* uploadFilesParallel(client, files, maxConcurrent), lines 241-244: the two
\* channels are made and the loop begins.
CallParallel(n, m) ==
    /\ par.pc = "idle"
    /\ par' = [NoPar EXCEPT !.pc = "loop", !.n = n, !.m = m]
    /\ UNCHANGED <<libVars, guide, retry>>

\* Lines 246-257: wg.Add(1) and the go statement for the next file; after
\* the last file the caller goes on to wg.Wait().
ParStart ==
    /\ par.pc = "loop"
    /\ IF par.started < par.n
       THEN par' = [par EXCEPT !.wg = @ + 1, !.started = @ + 1,
                               !.g[par.started + 1] = "acquire"]
       ELSE par' = [par EXCEPT !.pc = "wait"]
    /\ UNCHANGED <<libVars, guide, retry>>

\* Faulty variant: the goroutine goes on without room in the semaphore.
ParAcquire_NoWait(i) ==
    /\ par.g[i] = "acquire"
    /\ par' = [par EXCEPT !.semaphore = @ + 1, !.g[i] = "upload"]
    /\ UNCHANGED <<libVars, guide, retry>>

\* Line 250: semaphore <- struct{}{}.  The send goes through while the
\* channel holds fewer than maxConcurrent values; nothing receives from the
\* channel but the deferred release of a goroutine that has sent.
ParAcquire(i) ==
    /\ par.g[i] = "acquire"
    /\ par.semaphore < par.m
    /\ par' = [par EXCEPT !.semaphore = @ + 1, !.g[i] = "upload"]
    /\ UNCHANGED <<libVars, guide, retry>>

\* Lines 253-255: uploadFile returns; its error goes into errChan, which has
\* room for one error per file.
ParUpload(i) ==
    /\ par.g[i] = "upload"
    /\ \E err \in BOOLEAN :
          par' = [par EXCEPT !.errChan = IF err THEN @ + 1 ELSE @,
                             !.failed = IF err THEN @ \cup {i} ELSE @,
                             !.g[i] = "release"]
    /\ UNCHANGED <<libVars, guide, retry>>

\* Line 251, deferred: <-semaphore
ParRelease(i) ==
    /\ par.g[i] = "release"
    /\ par' = [par EXCEPT !.semaphore = @ - 1, !.g[i] = "exit"]
    /\ UNCHANGED <<libVars, guide, retry>>

\* Line 249, deferred: wg.Done()
ParDone(i) ==
    /\ par.g[i] = "exit"
    /\ par' = [par EXCEPT !.wg = @ - 1, !.g[i] = "done"]
    /\ UNCHANGED <<libVars, guide, retry>>

\* Lines 259-271: wg.Wait() returns when the counter is 0; errChan is closed
\* and drained, and the number of errors decides what is returned.
ParCollect ==
    /\ par.pc = "wait"
    /\ par.wg = 0
    /\ par' = [par EXCEPT !.pc = "done", !.errors = par.errChan, !.errChan = 0]
    /\ UNCHANGED <<libVars, guide, retry>>

ParNext ==
    \/ \E n \in 0..MaxFiles, m \in 0..MaxConcurrent : CallParallel(n, m)
    \/ ParStart
    \/ \E i \in 1..MaxFiles :
          ParAcquire(i) \/ ParUpload(i) \/ ParRelease(i) \/ ParDone(i)
    \/ ParCollect

ParSpec == Init /\ [][ParNext]_vars

\* Every goroutine that can take a step gets to take one, and uploadFile
\* returns.
ParLiveSpec == ParSpec /\ WF_vars(ParNext)

\* Two goroutines each call one of Upload, UploadBytes, Download and Delete
\* on the first client, at the same time; the uploads share one UploadOptions
\* value whose ExpiresIn is 0.  The local steps succeed, and the server
\* answers 200, 201 or 204 with a body that is read to its end.
PairHttpCall(p) ==
    \/ /\ op[p].name = ""
       /\ \/ \E filePath \in FilePaths : CallUpload(p, 1, filePath, 1)
          \/ \E filename \in FormNames : CallUploadBytes(p, 1, filename, 1)
          \/ CallDelete(p, 1, <<"f",".","j">>, TicksPerSec + 1)
          \/ CallDownload(p, 1, <<"f",".","j">>, <<"n","e","w">>, TicksPerSec + 1)
    \/ BuildBody(p) /\ op'[p].at = "url"
    \/ UploadURL(p)
    \/ Sign(p)
    \/ Return(p)
    \/ SendRequest(p)
    \/ /\ Respond(p)
       /\ resp'[p].read = resp'[p].body
       /\ resp'[p].body \in JSONBodies
       /\ resp'[p].status \in {StatusOK, StatusCreated, StatusNoContent}
       /\ outcome'[p] \in {UploadOutcome(resp'[p]), DeleteOutcome(resp'[p]),
                           DownloadOutcome(resp'[p], "none")}

PairHttpNext ==
    \/ EarlyTick
    \/ \E p \in Procs : PairHttpCall(p)

PairHttpSpec == Init /\ [][PairHttpNext]_vars

(***************************************************************************)
(* The verifying server of the wire contract: it rebuilds the canonical    *)
(* payload METHOD "\n" PATH "\n" EXPIRES_DECIMAL, signs it with its key    *)
(* and compares.                                                           *)
(***************************************************************************)
RECURSIVE decimalString(_)
decimalString(n) ==
    IF n < 0 THEN <<"-">> \o decimalString(0 - n)
    ELSE IF n < 10 THEN <<Digits[n + 1]>>
    ELSE Append(decimalString(n \div 10), Digits[(n % 10) + 1])

CanonicalPayload(method, path, expiresAt) ==
    method \o <<NL>> \o path \o <<NL>> \o decimalString(expiresAt)

VerifierAccepts(key, method, path, expiresAt, sig) ==
    sig = EncodeToString(HmacSha256(key, CanonicalPayload(method, path, expiresAt)))

\* The query parameter names of the wire format.
NameAccessKey == <<"X","-","M","o","s","-","A","c","c","e","s","s","K","e","y">>

NameExpires == <<"X","-","M","o","s","-","E","x","p","i","r","e","s">>

NameSignature == <<"X","-","M","o","s","-","S","i","g","n","a","t","u","r","e">>

\* The server takes the path, X-Mos-Expires and X-Mos-Signature out of the
\* request URL, rejects when its clock is past X-Mos-Expires, and otherwise
\* recomputes the signature for the method of the request.
ServerAccepts(key, method, rawURL, clock) ==
    LET u   == Parse(rawURL)
        q   == ParseQuery(u.RawQuery)
        exp == Get(q, NameExpires)
    IN  /\ IsDecimal(exp)
        /\ ~(Unix(clock) > ParseInt(exp))
        /\ VerifierAccepts(key, method, u.Path, ParseInt(exp), Get(q, NameSignature))

(***************************************************************************)
(* Claims about GenerateSignature (SigSpec)                                *)
(***************************************************************************)
SecretOf(call) == clients[call.c].SecretKey

SameTriple(a, b) ==
    a.method = b.method /\ a.path = b.path /\ a.expires = b.expires

\* How many of method, path, expires and secret key differ between two calls.
Differences(a, b) ==
    (IF a.method = b.method THEN 0 ELSE 1)
    + (IF a.path = b.path THEN 0 ELSE 1)
    + (IF a.expires = b.expires THEN 0 ELSE 1)
    + (IF SecretOf(a) = SecretOf(b) THEN 0 ELSE 1)

\* C1: the result of GenerateSignature(method, path, expires) is the padded
\* URL-safe base64 text of the HMAC-SHA256, keyed with SecretKey, of exactly
\* method "\n" path "\n" decimal(expires): the payload has no trailing newline,
\* for a positive expires the decimal is digits only with no leading zero, and
\* the text is 44 characters of the URL-safe alphabet and '=' that decode to the
\* digest.
C1_SignatureIsCanonical ==
    sigCall.sig # <<>> =>
        LET payload == CanonicalPayload(sigCall.method, sigCall.path, sigCall.expires)
            dec == SubSeq(sigCall.stringToSign,
                          Len(sigCall.method) + Len(sigCall.path) + 3,
                          Len(sigCall.stringToSign))
        IN  /\ sigCall.stringToSign = payload
            /\ payload[Len(payload)] # NL
            /\ sigCall.expires > 0 =>
                  Range(dec) \subseteq Range(Digits) /\ dec[1] # "0"
            /\ Len(sigCall.sig) = 4 * ((Sha256Size + 2) \div 3)
            /\ Range(sigCall.sig) \subseteq Range(encodeURL) \cup {StdPadding}
            /\ DecodeString(sigCall.sig) = HmacSha256(SecretOf(sigCall), payload)

C1_Witness ==
    /\ sigCall.sig # <<>>
    /\ sigCall.expires = MaxExpires
    /\ sigCall.method = DELETE

\* C2: a verifier that holds the key and the triple of the request recorded in
\* sigSeen, and is shown the signature returned by the call recorded in sigCall,
\* accepts exactly when its key is the signing key and its triple is the signed
\* triple; any other key, method, path or expires makes it reject.
C2_RoundTrip ==
    (sigCall.sig # <<>> /\ sigSeen.sig # <<>>) =>
        (VerifierAccepts(SecretOf(sigSeen), sigSeen.method, sigSeen.path,
                         sigSeen.expires, sigCall.sig)
            <=> (SecretOf(sigSeen) = SecretOf(sigCall) /\ SameTriple(sigSeen, sigCall)))

C2_Witness ==
    /\ sigCall.sig # <<>>
    /\ sigSeen.sig # <<>>
    /\ SecretOf(sigSeen) # SecretOf(sigCall)
    /\ SameTriple(sigSeen, sigCall)
    /\ ~VerifierAccepts(SecretOf(sigSeen), sigSeen.method, sigSeen.path,
                        sigSeen.expires, sigCall.sig)

\* C5: two calls of GenerateSignature that differ in exactly one of method,
\* path, expires and secret key return different signatures.
C5_Sensitivity ==
    (sigCall.sig # <<>> /\ sigSeen.sig # <<>> /\ Differences(sigSeen, sigCall) = 1)
        => sigSeen.sig # sigCall.sig

C5_Witness ==
    /\ sigCall.sig # <<>>
    /\ sigSeen.sig # <<>>
    /\ Differences(sigSeen, sigCall) = 1
    /\ sigSeen.expires # sigCall.expires

Returned(p) == result[p] # <<>>

ClientOf(p) == clients[args[p].c]

Query(rawURL) == ParseQuery(Parse(rawURL).RawQuery)

\* The X-Mos-Expires value of a URL, as a number.
EmbeddedExpires(rawURL) == ParseInt(Get(Query(rawURL), NameExpires))

\* The text of a query parameter as it stands in the query, not unescaped.
RECURSIVE RawGet(_, _)
RawGet(query, key) ==
    IF Len(query) = 0 THEN <<>>
    ELSE IF CutBefore(CutBefore(query, "&"), "=") = key
         THEN CutAfter(CutBefore(query, "&"), "=")
         ELSE RawGet(CutAfter(query, "&"), key)

Unreserved == Range(Upper) \cup Range(Lower) \cup Range(Digits) \cup {"-", "_", ".", "~"}

\* A request URL made from a returned URL by putting another path and another
\* X-Mos-Expires around its signature.
Altered(c, rawURL, path, exp) ==
    c.BaseURL \o path \o <<"?">> \o NameAccessKey \o <<"=">> \o c.AccessKey
        \o <<"&">> \o NameExpires \o <<"=">> \o decimalString(exp)
        \o <<"&">> \o NameSignature \o <<"=">>
        \o RawGet(Parse(rawURL).RawQuery, NameSignature)

\* The URLs a holder of the URL returned to p can present: the URL itself, and
\* the URL with its path or its expiry, or both, replaced.
Presented(p) ==
    {result[p]} \cup
    {Altered(ClientOf(p), result[p], path, exp) :
        path \in Paths,
        exp \in {EmbeddedExpires(result[p]), EmbeddedExpires(result[p]) + 1}}

\* C3: for a URL returned by GeneratePresignedURL(method, path, expiresIn), a
\* server holding the same secret key accepts a request (any method, the URL as
\* returned or with its path or expiry replaced) at the current clock if and
\* only if the clock is at most the X-Mos-Expires of the request and the
\* request has the method the URL was generated for and the path and expiry
\* of the URL as it was returned.
C3_VerifiesIffFreshAndUnmodified ==
    \A p \in Procs : Returned(p) =>
        \A method \in Methods, u \in Presented(p) :
            ServerAccepts(ClientOf(p).SecretKey, method, u, now)
                <=> /\ Unix(now) <= EmbeddedExpires(u)
                    /\ method = args[p].method
                    /\ Parse(u).Path = Parse(result[p]).Path
                    /\ EmbeddedExpires(u) = EmbeddedExpires(result[p])

C3_Witness ==
    \E p \in Procs :
        /\ Returned(p)
        /\ Unix(now) <= expires[p]
        /\ ServerAccepts(ClientOf(p).SecretKey, args[p].method, result[p], now)
        /\ \E u \in Presented(p) :
              /\ EmbeddedExpires(u) = EmbeddedExpires(result[p]) + 1
              /\ ~ServerAccepts(ClientOf(p).SecretKey, args[p].method, u, now)

\* C4, safety part: a URL generated with expiresIn of at least one second is
\* accepted at the clock value its call read, and no URL is accepted once the
\* clock is past its X-Mos-Expires.
ExpiryEnforced ==
    \A p \in Procs : Returned(p) =>
        /\ args[p].expiresIn >= TicksPerSec =>
              ServerAccepts(ClientOf(p).SecretKey, args[p].method, result[p], readAt[p])
        /\ Unix(now) > EmbeddedExpires(result[p]) =>
              ~ServerAccepts(ClientOf(p).SecretKey, args[p].method, result[p], now)

Rejected ==
    \A p \in Procs : Returned(p) =>
        ~ServerAccepts(ClientOf(p).SecretKey, args[p].method, result[p], now)

\* C4: a URL generated with expiresIn of one second or more is accepted at the
\* moment it is generated; from the moment the clock exceeds X-Mos-Expires a URL
\* is rejected at every later time; and while the clock keeps advancing every
\* generated URL is eventually rejected for ever.
C4_ExpiryEnforcement == []ExpiryEnforced /\ <>[]Rejected

C4_Witness ==
    \E p \in Procs :
        /\ Returned(p)
        /\ args[p].expiresIn = TicksPerSec
        /\ Unix(now) > EmbeddedExpires(result[p])
        /\ ServerAccepts(ClientOf(p).SecretKey, args[p].method, result[p], readAt[p])
        /\ ~ServerAccepts(ClientOf(p).SecretKey, args[p].method, result[p], now)

\* C7: the returned URL is BaseURL, the path, "?X-Mos-AccessKey=", the access
\* key, "&X-Mos-Expires=", the decimal expiry, "&X-Mos-Signature=" and the
\* percent-encoded signature, in that order, with a non-empty expiry and a
\* non-empty signature value.
C7_URLFormat ==
    \A p \in Procs : Returned(p) =>
        LET c    == ClientOf(p)
            dec  == decimalString(expires[p])
            head == c.BaseURL \o args[p].path \o QAccessKey \o c.AccessKey
                        \o QExpires \o dec \o QSignature
            tail == SubSeq(result[p], Len(head) + 1, Len(result[p]))
        IN  /\ Len(dec) > 0
            /\ Len(result[p]) > Len(head)
            /\ SubSeq(result[p], 1, Len(head)) = head
            /\ Range(tail) \subseteq Unreserved \cup {"%"}
            /\ UnescapeOk(tail)
            /\ QueryUnescape(tail) =
                  GenerateSignature(c, args[p].method, args[p].path, expires[p])

C7_Witness ==
    \E p \in Procs :
        /\ Returned(p)
        /\ args[p].method = POST
        /\ "_" \in Range(signature[p])
        /\ expires[p] > 0

FloorSec(d) == d \div TicksPerSec

\* C8 as claimed: the embedded expiry is the unix second of the clock reading
\* plus the duration floored to whole seconds, so it lies between
\* b + floor(expiresIn) and a + floor(expiresIn) for the unix seconds b read
\* before and a read after the call.
C8_Original ==
    \A p \in Procs : Returned(p) =>
        /\ EmbeddedExpires(result[p]) = Unix(readAt[p]) + FloorSec(args[p].expiresIn)
        /\ Unix(readAt[p]) + FloorSec(args[p].expiresIn) <= EmbeddedExpires(result[p])
        /\ EmbeddedExpires(result[p]) <= Unix(now) + FloorSec(args[p].expiresIn)

\* C8, amended: the embedded expiry is the whole second that holds the instant
\* clock reading + expiresIn (the sum is floored, not the duration), so it lies
\* between b + floor(expiresIn) and a + floor(expiresIn) + 1, and for a duration
\* of whole seconds it is the unix second of the reading plus the duration.
C8_ExpiryIsFlooredSum ==
    \A p \in Procs : Returned(p) =>
        LET X == EmbeddedExpires(result[p])
            d == args[p].expiresIn
        IN  /\ X * TicksPerSec <= readAt[p] + d
            /\ readAt[p] + d < (X + 1) * TicksPerSec
            /\ Unix(readAt[p]) + FloorSec(d) <= X
            /\ X <= Unix(now) + FloorSec(d) + 1
            /\ d % TicksPerSec = 0 => X = Unix(readAt[p]) + FloorSec(d)

C8_Witness ==
    \E p \in Procs :
        /\ Returned(p)
        /\ args[p].expiresIn % TicksPerSec # 0
        /\ readAt[p] % TicksPerSec # 0
        /\ now = readAt[p]
        /\ EmbeddedExpires(result[p])
              = Unix(readAt[p]) + FloorSec(args[p].expiresIn) + 1

\* C9: in a returned URL the percent-decoded X-Mos-Signature parameter is
\* GenerateSignature(method, path, E) for the E in X-Mos-Expires of the same
\* URL, and the parameter as written holds none of '&', '=', '#', '?' and '+'.
C9_SignatureSurvivesQuery ==
    \A p \in Procs : Returned(p) =>
        LET q   == Query(result[p])
            E   == Get(q, NameExpires)
            enc == RawGet(Parse(result[p]).RawQuery, NameSignature)
        IN  /\ IsDecimal(E)
            /\ Get(q, NameSignature) =
                  GenerateSignature(ClientOf(p), args[p].method, args[p].path, ParseInt(E))
            /\ Len(enc) > 0
            /\ Range(enc) \cap {"&", "=", "#", "?", "+"} = {}

C9_Witness ==
    \E p \in Procs :
        /\ Returned(p)
        /\ StdPadding \in Range(Get(Query(result[p]), NameSignature))
        /\ "%" \in Range(RawGet(Parse(result[p]).RawQuery, NameSignature))

ParsedAsClaimed(p) ==
    LET q == Query(result[p])
    IN  /\ Get(q, NameAccessKey) = ClientOf(p).AccessKey
        /\ Get(q, NameExpires) # <<>>
        /\ Get(q, NameSignature) # <<>>

\* C10 as claimed: for every client configuration the returned URL parses with
\* X-Mos-AccessKey equal to the client's AccessKey and with non-empty
\* X-Mos-Expires and X-Mos-Signature.
C10_Original == \A p \in Procs : Returned(p) => ParsedAsClaimed(p)

\* C10, amended: the same, for a client whose AccessKey holds only characters
\* that a query string carries unescaped (letters, digits, '-', '_', '.', '~').
C10_ParsesForSafeAccessKey ==
    \A p \in Procs :
        (Returned(p) /\ Range(ClientOf(p).AccessKey) \subseteq Unreserved)
            => ParsedAsClaimed(p)

C10_Witness ==
    \E p \in Procs :
        /\ Returned(p)
        /\ Range(ClientOf(p).AccessKey) \subseteq Unreserved
        /\ Get(Query(result[p]), NameAccessKey) = ClientOf(p).AccessKey
        /\ args[p].method = GET

(***************************************************************************)
(* Claims about the object URL builders (BuilderSpec)                      *)
(***************************************************************************)
\* The goroutine's last call was of the named method and has returned a URL.
Finished(p, name) == pc[p] = "idle" /\ op[p].name = name /\ result[p] # <<>>

\* The path templates of the wire contract.
ObjectsTemplate(projectID, bucketName) ==
    <<"/","a","p","i","/","v","1","/","p","r","o","j","e","c","t","s","/">> \o projectID \o <<"/","b","u","c","k","e","t","s","/">> \o bucketName \o <<"/","o","b","j","e","c","t","s">>

ObjectTemplate(projectID, bucketName, filename) ==
    ObjectsTemplate(projectID, bucketName) \o <<"/">> \o filename

PublicTemplate(baseURL, projectID, bucketName, filename) ==
    baseURL \o <<"/","a","p","i","/","v","1","/","p","u","b","l","i","c","/","p","r","o","j","e","c","t","s","/">> \o projectID \o <<"/","b","u","c","k","e","t","s","/">> \o bucketName \o <<"/">> \o filename

\* The call signed this method over this path, and its URL is the base URL,
\* this path and then the query.
SignedOver(p, method, path) ==
    /\ signature[p] = GenerateSignature(ClientOf(p), method, path, expires[p])
    /\ CutBefore(result[p], "?") = ClientOf(p).BaseURL \o path

\* C11: GetObjectURL signs GET and DeleteObjectURL signs DELETE over
\* /api/v1/projects/{ProjectID}/buckets/{BucketName}/objects/{filename} with
\* the filename as given, UploadObjectURL signs POST over
\* /api/v1/projects/{ProjectID}/buckets/{BucketName}/objects, and the path of
\* the returned URL is the signed path.
C11_PathTemplates ==
    \A p \in Procs :
        LET c == ClientOf(p)
        IN  /\ Finished(p, "GetObjectURL") =>
                 SignedOver(p, GET, ObjectTemplate(c.ProjectID, c.BucketName,
                                                   op[p].filename))
            /\ Finished(p, "DeleteObjectURL") =>
                 SignedOver(p, DELETE, ObjectTemplate(c.ProjectID, c.BucketName,
                                                      op[p].filename))
            /\ Finished(p, "UploadObjectURL") =>
                 SignedOver(p, POST, ObjectsTemplate(c.ProjectID, c.BucketName))

\* A download URL has been returned for a filename that holds a space.
C11_Witness ==
    \E p \in Procs :
        /\ Finished(p, "GetObjectURL")
        /\ op[p].filename = <<"a"," ","b">>
        /\ " " \in Range(CutBefore(result[p], "?"))

Find(s, t) ==
    LET at == {i \in 1..(Len(s) - Len(t) + 1) : SubSeq(s, i, i + Len(t) - 1) = t}
    IN  IF at = {} THEN 0 ELSE CHOOSE i \in at : \A j \in at : i <= j

\* The URL up to and including "&X-Mos-Signature=".
UpToSignature(rawURL) == SubSeq(rawURL, 1, Find(rawURL, QSignature) + Len(QSignature) - 1)

\* What follows "&X-Mos-Signature=".
SignatureValue(rawURL) ==
    SubSeq(rawURL, Find(rawURL, QSignature) + Len(QSignature), Len(rawURL))

DifferOnlyInSecretKey(c, d) ==
    /\ c.BaseURL = d.BaseURL
    /\ c.ProjectID = d.ProjectID
    /\ c.BucketName = d.BucketName
    /\ c.AccessKey = d.AccessKey
    /\ c.SecretKey # d.SecretKey

\* C13: the secret key is in no generated URL outside the signature value;
\* for two clients that differ only in SecretKey, GetPublicObjectURL returns
\* the same string, and GeneratePresignedURL with the same arguments and clock
\* reading returns strings that differ in the value of X-Mos-Signature only.
C13_SecretKeyOnlyInSignature ==
    \A p \in Procs :
        /\ Finished(p, "GetPublicObjectURL") =>
              Find(result[p], ClientOf(p).SecretKey) = 0
        /\ Finished(p, "GeneratePresignedURL") =>
              /\ Find(result[p], QSignature) > 0
              /\ Find(UpToSignature(result[p]), ClientOf(p).SecretKey) = 0
              /\ "&" \notin Range(SignatureValue(result[p]))
        /\ \A q \in Procs :
              DifferOnlyInSecretKey(ClientOf(p), ClientOf(q)) =>
                  /\ ( /\ Finished(p, "GetPublicObjectURL")
                       /\ Finished(q, "GetPublicObjectURL")
                       /\ op[p].filename = op[q].filename )
                     => result[p] = result[q]
                  /\ ( /\ Finished(p, "GeneratePresignedURL")
                       /\ Finished(q, "GeneratePresignedURL")
                       /\ args[p].method = args[q].method
                       /\ args[p].path = args[q].path
                       /\ args[p].expiresIn = args[q].expiresIn
                       /\ readAt[p] = readAt[q] )
                     => UpToSignature(result[p]) = UpToSignature(result[q])

\* Both clients have presigned the same request at the same clock reading and
\* their URLs differ.
C13_Witness ==
    /\ Finished(1, "GeneratePresignedURL")
    /\ Finished(2, "GeneratePresignedURL")
    /\ DifferOnlyInSecretKey(ClientOf(1), ClientOf(2))
    /\ args[1].expiresIn = args[2].expiresIn
    /\ readAt[1] = readAt[2]
    /\ result[1] # result[2]
    /\ UpToSignature(result[1]) = UpToSignature(result[2])

(***************************************************************************)
(* Claims about the whole library (LibSpec)                                *)
(***************************************************************************)
\* C14: the five fields of every client hold the five arguments NewClient was
\* given, after any sequence of library operations, failed ones included.
C14_CredentialsImmutable ==
    \A i \in ClientIds :
        /\ DOMAIN clients[i] = {"BaseURL", "ProjectID", "BucketName", "AccessKey", "SecretKey"}
        /\ clients[i].BaseURL = given[i][1]
        /\ clients[i].ProjectID = given[i][2]
        /\ clients[i].BucketName = given[i][3]
        /\ clients[i].AccessKey = given[i][4]
        /\ clients[i].SecretKey = given[i][5]

\* A signature has been computed, an upload has changed its caller's options,
\* and a delete has just failed.
C14_Witness ==
    /\ sigCall # NoSigCall
    /\ options # CallerOptions
    /\ op[1].name = "Delete"
    /\ outcome[1].done
    /\ outcome[1].err # <<>>

(***************************************************************************)
(* Claims about concurrent calls of the signer methods (PairSpec)          *)
(***************************************************************************)
\* What the goroutine's call returns when it runs alone and reads the clock
\* at the given value.
AloneURL(p, clock) ==
    LET c == ClientOf(p)
        e == ExpiresAt(clock, args[p].expiresIn)
        Presigned(method, path) ==
            PresignedURL(c, path, e, GenerateSignature(c, method, path, e))
    IN  IF op[p].name = "GeneratePresignedURL" THEN Presigned(args[p].method, args[p].path)
        ELSE IF op[p].name = "GetObjectURL" THEN
            Presigned(GET, GetObjectPath(c, op[p].filename))
        ELSE IF op[p].name = "UploadObjectURL" THEN Presigned(POST, UploadObjectPath(c))
        ELSE IF op[p].name = "DeleteObjectURL" THEN
            Presigned(DELETE, DeleteObjectPath(c, op[p].filename))
        ELSE GetPublicObjectURL(c, op[p].filename)

SignerMethods == {"GeneratePresignedURL", "GetObjectURL", "UploadObjectURL",
                  "DeleteObjectURL", "GetPublicObjectURL"}

\* C15: in every interleaving of calls of the signer methods on one client,
\* the client is left as it was constructed and each call returns what it
\* returns when run alone with the same clock reading.
C15_SignerThreadSafety ==
    /\ \A i \in ClientIds :
          clients[i] = NewClient(given[i][1], given[i][2], given[i][3], given[i][4],
                                 given[i][5])
    /\ sigCall # NoSigCall =>
          sigCall.sig = GenerateSignature(clients[sigCall.c], sigCall.method,
                                          sigCall.path, sigCall.expires)
    /\ \A p \in Procs :
          \A name \in SignerMethods :
              Finished(p, name) => result[p] = AloneURL(p, readAt[p])

\* The first goroutine has begun and finished a download URL while the second
\* one, which read the clock earlier, is still inside DeleteObjectURL.
C15_Witness ==
    /\ Finished(1, "GetObjectURL")
    /\ op[2].name = "DeleteObjectURL"
    /\ pc[2] = "sign"
    /\ readAt[2] < readAt[1]
    /\ expires[2] # expires[1]

(***************************************************************************)
(* Claims about concurrent uploads, downloads and deletes (PairHttpSpec)   *)
(***************************************************************************)
\* The goroutine's call of an HTTP operation has returned.
Done(p) == op[p].name \in HttpOps /\ op[p].at = "" /\ outcome[p].done

\* The expiry duration an upload signs with, by the options its caller passed.
OwnExpiresIn(p) ==
    IF op[p].opts = NilOptions \/ op[p].before.ExpiresIn = 0 THEN Hour
    ELSE op[p].before.ExpiresIn

\* The URL the call builds from its own arguments and its own clock reading.
OwnURL(p) ==
    LET c == ClientOf(p)
        Presigned(method, path, d) ==
            PresignedURL(c, path, ExpiresAt(readAt[p], d),
                         GenerateSignature(c, method, path, ExpiresAt(readAt[p], d)))
    IN  IF op[p].name \in {"Upload", "UploadBytes"}
        THEN Presigned(POST, UploadObjectPath(c), OwnExpiresIn(p))
        ELSE IF op[p].name = "Delete"
        THEN Presigned(DELETE, DeleteObjectPath(c, op[p].filename), args[p].expiresIn)
        ELSE GetPublicObjectURL(c, op[p].filename)

\* What the call returns by its own response alone.
OwnOutcomes(p) ==
    IF op[p].name \in {"Upload", "UploadBytes"} THEN {UploadOutcome(resp[p])}
    ELSE IF op[p].name = "Delete" THEN {DeleteOutcome(resp[p])}
    ELSE {DownloadOutcome(resp[p], fs) : fs \in {"none", "create", "copy"}}

SigningCallReturned(p) ==
    /\ op[p].name \in {"GeneratePresignedURL", "GetObjectURL", "UploadObjectURL",
                       "DeleteObjectURL"}
    /\ pc[p] = "idle"

\* The arguments of the call are malformed.
Malformed(p) ==
    \/ args[p].expiresIn <= 0
    \/ op[p].name = "GeneratePresignedURL" /\ args[p].method = <<>>
    \/ op[p].name = "GeneratePresignedURL" /\ args[p].path = <<>>

\* C17: a call of GeneratePresignedURL, GetObjectURL, UploadObjectURL or
\* DeleteObjectURL with a zero or negative expiresIn, an empty method or an
\* empty path produces no signed URL.
C17_MalformedInputsFailFast ==
    \A p \in Procs :
        (SigningCallReturned(p) /\ Malformed(p)) => result[p] = <<>>

(***************************************************************************)
(* Claims about the HTTP operations (HttpSpec)                             *)
(***************************************************************************)
\* The status with which the server grants the operation.
SuccessCode(name) ==
    IF name \in {"Upload", "UploadBytes"} THEN 201
    ELSE IF name = "Delete" THEN 204
    ELSE 200

\* The first word of the operation's error message.
Verb(name) ==
    IF name \in {"Upload", "UploadBytes"} THEN <<"u","p","l","o","a","d">>
    ELSE IF name = "Delete" THEN <<"d","e","l","e","t","e">>
    ELSE <<"d","o","w","n","l","o","a","d">>

\* The call has returned after the server answered with a status other than
\* the operation's success code.
ServerRejected(p) ==
    /\ Done(p)
    /\ resp[p].kind = "response"
    /\ resp[p].status # SuccessCode(op[p].name)

\* The call returned an error that carries the status and the given body.
Surfaced(p, body) ==
    /\ outcome[p].value = "nil"
    /\ outcome[p].err = Verb(op[p].name) \o <<" ","f","a","i","l","e","d"," ","w","i","t","h"," ","s","t","a","t","u","s"," ">>
                            \o FormatInt(resp[p].status) \o <<":"," ">> \o body

\* C18 as stated: a rejected call returns an error that carries the status
\* code and the response body the server sent, and never reports success.
C18_Original == \A p \in Procs : ServerRejected(p) => Surfaced(p, resp[p].body)

\* C18, amended: a rejected call never reports success; it returns an error
\* that carries the status code and the part of the response body that was
\* read, which is the whole body whenever reading it did not fail.
C18_RejectionsSurfaced ==
    \A p \in Procs :
        ServerRejected(p) =>
            /\ Surfaced(p, resp[p].read)
            /\ outcome[p].err # <<>>
            /\ \E n \in 0..Len(resp[p].body) : resp[p].read = SubSeq(resp[p].body, 1, n)

\* An upload was answered 404 and its error carries the whole body.
C18_Witness ==
    \E p \in Procs :
        /\ ServerRejected(p)
        /\ op[p].name = "Upload"
        /\ resp[p].status = 404
        /\ resp[p].read = resp[p].body
        /\ resp[p].body = <<"n","o">>

\* C19: a call of Upload, UploadBytes, Download or Delete issues at most one
\* HTTP request and generates at most one URL, and it has returned once its
\* first response or transport error is there, whatever the status was.
C19_NoInternalRetry ==
    \A p \in Procs :
        op[p].name \in HttpOps =>
            /\ requests[p] <= 1
            /\ urls[p] <= 1
            /\ resp[p].kind # "none" => (Done(p) /\ requests[p] = 1 /\ urls[p] = 1)
            /\ op[p].at = "await" => (requests[p] = 1 /\ resp[p].kind = "none")

\* A delete was answered 500 and has returned after its one request.
C19_Witness ==
    \E p \in Procs :
        /\ Done(p)
        /\ op[p].name = "Delete"
        /\ resp[p].status = 500
        /\ requests[p] = 1
        /\ urls[p] = 1
        /\ outcome[p].err # <<>>

\* C20: the default expiry is one hour. DefaultOptions().ExpiresIn is one
\* hour; Upload and UploadBytes called with nil options or with an ExpiresIn
\* of 0 sign their upload URL with expiresIn = one hour, and any other
\* ExpiresIn, a negative one included, is used as the caller gave it.
UploadOps == {"Upload", "UploadBytes"}

OneHour == 3600 * TicksPerSec

GivenExpiresIn(p) ==
    IF op[p].opts = NilOptions \/ op[p].before.ExpiresIn = 0
    THEN OneHour
    ELSE op[p].before.ExpiresIn

C20_DefaultExpiryOneHour ==
    /\ DefaultOptions.ExpiresIn = OneHour
    /\ \A p \in Procs :
          (op[p].name \in UploadOps /\ args[p].method = POST) =>
              /\ args[p].expiresIn = GivenExpiresIn(p)
              /\ expires[p] = ExpiresAt(readAt[p], GivenExpiresIn(p))
              /\ urls[p] = 1 =>
                    result[p] = PresignedURL(Receiver(p), UploadObjectPath(Receiver(p)),
                                             ExpiresAt(readAt[p], GivenExpiresIn(p)),
                                             GenerateSignature(Receiver(p), POST,
                                                 UploadObjectPath(Receiver(p)),
                                                 ExpiresAt(readAt[p], GivenExpiresIn(p))))

\* An upload whose caller passed options with ExpiresIn 0 has returned, its
\* URL signed for one hour after the clock reading.
C20_Witness ==
    \E p \in Procs :
        /\ Done(p)
        /\ op[p].name = "UploadBytes"
        /\ op[p].opts # NilOptions
        /\ op[p].before.ExpiresIn = 0
        /\ urls[p] = 1
        /\ expires[p] = ExpiresAt(readAt[p], OneHour)

\* The same with nil options, and with a negative ExpiresIn kept as given.
C20_NilCase ==
    \E p \in Procs :
        /\ Done(p) /\ op[p].name = "Upload" /\ op[p].opts = NilOptions
        /\ urls[p] = 1 /\ args[p].expiresIn = OneHour

C20_GivenCase ==
    \E p \in Procs :
        /\ Done(p) /\ op[p].name \in UploadOps /\ op[p].opts # NilOptions
        /\ op[p].before.ExpiresIn < 0
        /\ urls[p] = 1 /\ args[p].expiresIn = op[p].before.ExpiresIn

(***************************************************************************)
(* Claims about Download (HttpSpec)                                        *)
(***************************************************************************)
\* The presigned GET URL of the call's object, expiring expiresIn after the
\* call's clock reading.
SignedGetURL(p) ==
    PresignedURL(Receiver(p), GetObjectPath(Receiver(p), op[p].filename),
                 ExpiresAt(readAt[p], args[p].expiresIn),
                 GenerateSignature(Receiver(p), GET,
                                   GetObjectPath(Receiver(p), op[p].filename),
                                   ExpiresAt(readAt[p], args[p].expiresIn)))

\* C21: the URL Download requests is a presigned GET URL for the object,
\* carrying X-Mos-AccessKey, X-Mos-Expires and X-Mos-Signature, whose expiry
\* is the call time plus expiresIn.
C21_DownloadAuthenticated ==
    \A p \in Procs :
        (op[p].name = "Download" /\ requests[p] = 1) => result[p] = SignedGetURL(p)

\* What the code does instead: the requested URL is the public one, without
\* a query string.
C21_DownloadUsesPublicURL ==
    \A p \in Procs :
        (op[p].name = "Download" /\ requests[p] = 1) =>
            /\ result[p] = GetPublicObjectURL(Receiver(p), op[p].filename)
            /\ Find(result[p], <<"?">>) = 0

(***************************************************************************)
(* Claims about the clock reading of GeneratePresignedURL (UrlSpec)        *)
(***************************************************************************)
\* The expiry seconds around e, e excluded.
NearbyExpires(e) == {e - 1, e + 1}

\* C22: GeneratePresignedURL reads the clock once. However the clock ticks
\* during and after the call, the expiry stays the one computed from that
\* reading, the signature is the one GenerateSignature gives for it, and the
\* X-Mos-Expires of the returned URL is that same value and no neighbour of it.
C22_ClockReadOnce ==
    \A p \in Procs :
        /\ pc[p] \in {"sign", "format"} =>
              expires[p] = ExpiresAt(readAt[p], args[p].expiresIn)
        /\ pc[p] = "format" =>
              signature[p] = GenerateSignature(ClientOf(p), args[p].method,
                                               args[p].path, expires[p])
        /\ Returned(p) =>
              LET E == EmbeddedExpires(result[p])
              IN  /\ E = expires[p]
                  /\ E = ExpiresAt(readAt[p], args[p].expiresIn)
                  /\ signature[p] = GenerateSignature(ClientOf(p), args[p].method,
                                                      args[p].path, E)
                  /\ \A e \in NearbyExpires(E) :
                        signature[p] # GenerateSignature(ClientOf(p), args[p].method,
                                                         args[p].path, e)

\* A URL has been returned and the clock has since moved into a second in
\* which a new reading would give another expiry.
C22_Witness ==
    \E p \in Procs :
        /\ Returned(p)
        /\ now > readAt[p]
        /\ ExpiresAt(now, args[p].expiresIn) # expires[p]
        /\ EmbeddedExpires(result[p]) = expires[p]

(***************************************************************************)
(* Claims about the method a signature is bound to (PairSpec)              *)
(***************************************************************************)
\* The signature a server reads out of the URL.
CarriedSignature(rawURL) == Get(Query(rawURL), NameSignature)

\* The server's check of the URL's signature for a request with the given
\* method on the URL's own path and expiry.
VerifiesFor(p, method) ==
    VerifierAccepts(ClientOf(p).SecretKey, method, Parse(result[p]).Path,
                    EmbeddedExpires(result[p]), CarriedSignature(result[p]))

\* Goroutine g holds a download URL and goroutine d a delete URL of the same
\* client for the same filename and the same expiry second.
GetAndDeleteIssued(g, d) ==
    /\ Finished(g, "GetObjectURL")
    /\ Finished(d, "DeleteObjectURL")
    /\ args[g].c = args[d].c
    /\ op[g].filename = op[d].filename
    /\ expires[g] = expires[d]

\* C23: a signature is bound to its HTTP method. The URLs GetObjectURL and
\* DeleteObjectURL return for the same client, filename and expiry second
\* have the same path and X-Mos-Expires and different signatures; each
\* verifies for its own method and is rejected for the two other methods.
C23_SignatureBoundToMethod ==
    \A g, d \in Procs :
        GetAndDeleteIssued(g, d) =>
            /\ Parse(result[g]).Path = Parse(result[d]).Path
            /\ EmbeddedExpires(result[g]) = EmbeddedExpires(result[d])
            /\ CarriedSignature(result[g]) # CarriedSignature(result[d])
            /\ SignatureValue(result[g]) # SignatureValue(result[d])
            /\ \A method \in Methods :
                  /\ VerifiesFor(g, method) <=> method = GET
                  /\ VerifiesFor(d, method) <=> method = DELETE

C23_Witness ==
    /\ GetAndDeleteIssued(1, 2)
    /\ VerifiesFor(1, GET)
    /\ ~VerifiesFor(1, DELETE)
    /\ ~VerifiesFor(2, GET)

(***************************************************************************)
(* Claims about the local file of Download (DownloadSpec)                  *)
(***************************************************************************)
\* The goroutine's download returns in this step.
DownloadReturns(p) == op[p].name = "Download" /\ op[p].at # "" /\ op'[p].at = ""

\* C24: Download touches the local file system only after a 200 response.
\* A download that returns after a transport error, after a request that
\* could not be made or after a status other than 200 returns an error and
\* leaves every local file as it was; no step but the return of a download
\* that was answered 200 changes a local file.
C24_FileOnlyAfterOK ==
    [][/\ \A p \in Procs :
             (DownloadReturns(p)
                 /\ ~(resp'[p].kind = "response" /\ resp'[p].status = StatusOK))
               => /\ files' = files
                  /\ outcome'[p].done
                  /\ outcome'[p].err # <<>>
       /\ files' # files =>
             \E p \in Procs :
                 /\ DownloadReturns(p)
                 /\ resp'[p].kind = "response"
                 /\ resp'[p].status = StatusOK
                 /\ \A path \in LocalPaths \ {op[p].localPath} :
                       files'[path] = files[path]]_vars

\* A download to a path that holds a file was answered 404 and has returned
\* an error; the file is the one from earlier.
C24_Witness ==
    \E p \in Procs :
        /\ Done(p)
        /\ op[p].name = "Download"
        /\ op[p].localPath = <<"o","l","d">>
        /\ resp[p].kind = "response"
        /\ resp[p].status = 404
        /\ outcome[p].err # <<>>
        /\ files[<<"o","l","d">>] = "old"
        /\ files[<<"n","e","w">>] = "absent"

(***************************************************************************)
(* Claims about the results of Upload, UploadBytes and Delete (HttpSpec)   *)
(***************************************************************************)
\* The server answered the call with the given status.
Answered(p, status) == resp[p].kind = "response" /\ resp[p].status = status

\* What the call returned: a value and no error, or no value and an error.
ReturnedValue(p) == outcome[p].value # "nil" /\ outcome[p].err = <<>>

ReturnedError(p) == outcome[p].value = "nil" /\ outcome[p].err # <<>>

ReturnedNil(p) == outcome[p].value = "nil" /\ outcome[p].err = <<>>

\* C25: success and error are mutually exclusive and exhaustive. A returned
\* Upload or UploadBytes gives a FileResponse and a nil error exactly when the
\* server answered 201 and the body decoded, and nil and an error in every
\* other case; a returned Delete gives nil exactly when the server answered
\* 204, and an error in every other case.
C25_SuccessXorError ==
    \A p \in Procs :
        /\ (Done(p) /\ op[p].name \in UploadOps) =>
              /\ ReturnedValue(p) <=> (Answered(p, 201) /\ Decodes(resp[p]))
              /\ ReturnedError(p) <=> ~(Answered(p, 201) /\ Decodes(resp[p]))
              /\ ~ReturnedNil(p)
        /\ (Done(p) /\ op[p].name = "Delete") =>
              /\ ReturnedNil(p) <=> Answered(p, 204)
              /\ ReturnedError(p) <=> ~Answered(p, 204)
              /\ ~ReturnedValue(p)

\* An upload was answered 201 with a body that is no JSON and has returned
\* an error.
C25_Witness ==
    \E p \in Procs :
        /\ Done(p)
        /\ op[p].name = "Upload"
        /\ Answered(p, 201)
        /\ resp[p].read = resp[p].body
        /\ resp[p].body \notin JSONBodies
        /\ ReturnedError(p)

\* Both successes happen: an upload answered 201 with a JSON body, and a
\* delete answered 204.
C25_UploadSucceeds ==
    \E p \in Procs :
        Done(p) /\ op[p].name = "UploadBytes" /\ Answered(p, 201) /\ ReturnedValue(p)

C25_DeleteSucceeds ==
    \E p \in Procs :
        Done(p) /\ op[p].name = "Delete" /\ Answered(p, 204) /\ ReturnedNil(p)

(***************************************************************************)
(* Claims about the order of the steps of Upload (HttpSpec)                *)
(***************************************************************************)
\* The errors of the local steps of an upload.
LocalErrors == {LocalError(fail) : fail \in {"open", "copy", "marshal"}}

\* The call has generated no URL and issued no request.
NothingSent(p) ==
    /\ urls[p] = 0
    /\ requests[p] = 0
    /\ result[p] = <<>>
    /\ resp[p].kind = "none"

\* C26: Upload performs its local steps before any network step. While the
\* body is being assembled no URL has been generated and no request issued;
\* an Upload that returns the error of a local step has generated no URL and
\* issued no request; and the call is past the assembly of the body whenever
\* it reads the clock for the URL, holds a URL or has issued a request.
C26_LocalStepsFirst ==
    \A p \in Procs :
        op[p].name = "Upload" =>
            /\ op[p].at = "body" => (NothingSent(p) /\ pc[p] = "idle")
            /\ (Done(p) /\ outcome[p].err \in LocalErrors) => NothingSent(p)
            /\ (pc[p] # "idle" \/ urls[p] > 0 \/ requests[p] > 0) =>
                  /\ op[p].at \in {"signed", "await", ""}
                  /\ outcome[p].err \notin LocalErrors

\* An Upload whose file could not be opened has returned.
C26_Witness ==
    \E p \in Procs :
        /\ Done(p)
        /\ op[p].name = "Upload"
        /\ outcome[p].err = LocalError("open")
        /\ NothingSent(p)

(***************************************************************************)
(* Claims about the caller's UploadOptions (HttpSpec)                      *)
(***************************************************************************)
\* The goroutine's last call was an upload with options of the caller, and
\* it has returned.
UploadedWith(p) == Done(p) /\ op[p].name \in UploadOps /\ op[p].opts # NilOptions

\* C27: Upload and UploadBytes do not modify the UploadOptions value the
\* caller passed: after the call has returned, ExpiresIn and Metadata hold
\* the values they had before the call.
C27_OptionsUnmodified ==
    \A p \in Procs : UploadedWith(p) => options[op[p].opts] = op[p].before

\* What the code does: Metadata is as before, and so is a non-zero ExpiresIn,
\* but an ExpiresIn of 0 has become one hour in the caller's value.
C27_ZeroExpiresInOverwritten ==
    \A p \in Procs :
        UploadedWith(p) =>
            /\ options[op[p].opts].Metadata = op[p].before.Metadata
            /\ options[op[p].opts].ExpiresIn =
                  IF op[p].before.ExpiresIn = 0 THEN Hour ELSE op[p].before.ExpiresIn

(***************************************************************************)
(* Claims about uploadWithRetry of the upload guide (GuideSpec)            *)
(***************************************************************************)
ClientErrors == 400..499

ServerErrors == 500..599

\* The answer the call met last.
LastSeen == guide.seen[Len(guide.seen)]

\* The call has returned.
GuideReturned == guide.pc = "done"

\* C28: uploadWithRetry of the upload guide treats transport errors and 5xx
\* responses as retryable and every 4xx response as terminal: a 4xx or a 201
\* is the last answer of a call, which has returned; after a transport error
\* or a 5xx with retries left the call goes on, unless its file cannot be
\* opened; the call issues at most maxRetries + 1 requests.
C28_GuideRetryPolicy ==
    /\ guide.requests <= guide.maxRetries + 1
    /\ \A i \in 1..Len(guide.seen) :
          guide.seen[i] \in ClientErrors \cup {StatusCreated} =>
              (i = Len(guide.seen) /\ GuideReturned)
    /\ (/\ guide.seen # <<>>
        /\ LastSeen \in {TransportError} \cup ServerErrors
        /\ guide.attempt <= guide.maxRetries
        /\ guide.err # "open") => ~GuideReturned

\* What the code does: of the 4xx statuses only 400 and 401 end the call;
\* 404, 429 and every other status are retried like a 5xx.
C28_GuideEndsOn400And401 ==
    /\ guide.requests <= guide.maxRetries + 1
    /\ guide.requests <= guide.urls
    /\ \A i \in 1..Len(guide.seen) :
          guide.seen[i] \in {StatusCreated, StatusBadRequest, StatusUnauthorized} =>
              (i = Len(guide.seen) /\ GuideReturned)
    /\ (/\ guide.seen # <<>>
        /\ LastSeen \notin {StatusCreated, StatusBadRequest, StatusUnauthorized}
        /\ guide.attempt <= guide.maxRetries
        /\ guide.err # "open") => ~GuideReturned

\* A call has met a 404 and gone on to a second request.
C28_RetriedAfter404 ==
    /\ Len(guide.seen) >= 1
    /\ guide.seen[1] = 404
    /\ guide.requests = 2

(***************************************************************************)
(* Claims about uploadWithRetry of the best practices (RetryLiveSpec)      *)
(***************************************************************************)
RetryStarted == retry.pc # "idle"

RetryReturned == retry.pc = "done"

\* 1, 2, 4, 8, ... seconds.
RECURSIVE Doubled(_)
Doubled(k) == IF k <= 1 THEN 1 ELSE 2 * Doubled(k - 1)

RetryPolicy ==
    /\ retry.attempts <= retry.maxRetries + 1
    /\ Len(retry.seen) <= retry.attempts
    /\ \A i \in 1..Len(retry.seen) :
          /\ retry.seen[i] = NilError =>
                /\ i = Len(retry.seen)
                /\ RetryReturned /\ retry.err = NilError /\ ~retry.wrapped
          /\ (retry.seen[i].kind = "HTTPError" /\ retry.seen[i].status \in 400..499) =>
                /\ i = Len(retry.seen)
                /\ RetryReturned /\ retry.err = retry.seen[i] /\ ~retry.wrapped
    /\ Len(retry.slept) = IF retry.attempts = 0 THEN 0 ELSE retry.attempts - 1
    /\ \A k \in 1..Len(retry.slept) : retry.slept[k] = Doubled(k)
    /\ (RetryReturned /\ retry.wrapped) =>
          /\ retry.attempts = retry.maxRetries + 1
          /\ Len(retry.seen) = retry.attempts
          /\ retry.err = retry.seen[Len(retry.seen)]
          /\ retry.err # NilError

InFlight == {i \in 1..MaxFiles : par.g[i] \in {"upload", "release"}}

ParStarted == par.pc # "idle"

ParReturned == par.pc = "done"

\* Never more than maxConcurrent uploads in flight, and a call that has
\* returned has run every upload and returns an error exactly when one of
\* them failed, with the count of the failed ones.
ParBounded ==
    /\ Cardinality(InFlight) <= par.m
    /\ par.semaphore = Cardinality(InFlight)
    /\ par.errChan <= par.n
    /\ ParReturned =>
          /\ \A i \in 1..MaxFiles : par.g[i] = IF i <= par.n THEN "done" ELSE "none"
          /\ par.errors = Cardinality(par.failed)
          /\ par.errors > 0 <=> par.failed # {}

\* The goroutines of the call are all blocked on the semaphore and the
\* caller is blocked in wg.Wait().
ParStuck ==
    /\ par.pc = "wait"
    /\ par.n >= 1
    /\ \A i \in 1..par.n : par.g[i] = "acquire"
    /\ par.semaphore = 0

\* C30 as stated: never more than maxConcurrent uploads in flight, and for
\* every number of files and every pattern of failures the call returns, an
\* error exactly when an upload failed.
C30_Original == []ParBounded /\ (ParStarted ~> ParReturned)

\* C30, amended: the same for maxConcurrent of at least 1; with a
\* maxConcurrent of 0 and at least one file no goroutine ever gets past the
\* semaphore and the call never returns.
C30_BoundedParallelUploads ==
    /\ []ParBounded
    /\ (ParStarted /\ (par.m >= 1 \/ par.n = 0)) ~> ParReturned
    /\ (ParStarted /\ par.m = 0 /\ par.n >= 1) ~> []ParStuck

\* Three files with maxConcurrent 2: two uploads are in flight and the third
\* goroutine waits at the semaphore, after which the call returns; here it
\* has returned with two failed uploads.
C30_Witness ==
    /\ ParReturned
    /\ par.n = 3
    /\ par.m = 2
    /\ par.failed = {1, 3}
    /\ par.errors = 2

C30_Waiting ==
    /\ par.m = 2
    /\ Cardinality(InFlight) = 2
    /\ \E i \in 1..MaxFiles : par.g[i] = "acquire"

====
